---- MODULE Spec2Model ----
(***************************************************************************)
(* A model of the 1Sub Python SDK (packages/python-sdk/onesub):            *)
(*   - errors.py    the error classes and parse_api_error                  *)
(*   - http.py      HttpClient.request, the retrying transport             *)
(*   - utils.py     the timestamped HMAC signature header                  *)
(*   - webhooks.py  WebhooksClient: verification and the dispatcher        *)
(*   - api/subscriptions.py  SubscriptionsApi and its cache                *)
(* Each subsystem has its own specification (SpecErrors, SpecHttp,         *)
(* SpecSig, SpecWebhook, SpecDispatch, SpecCache); a specification leaves  *)
(* the variables of the other subsystems parked at their initial values.   *)
(***************************************************************************)
EXTENDS Integers, Sequences, FiniteSets, TLC

VARIABLES
    \* errors.py: one application of parse_api_error
    pae_status,        \* the status_code argument
    pae_body,          \* the body argument
    pae_raised,        \* the exception it raised (NoError before the call)
    pae_returned,      \* TRUE when the call returned normally
    \* http.py: one HttpClient and one call of request
    max_retries,       \* HttpClient.max_retries
    json_error_is_request_exception,
                       \* the installed requests library raises
                       \* requests.exceptions.JSONDecodeError (a
                       \* RequestException, requests >= 2.27) from
                       \* Response.json(); older ones raise a plain ValueError
    script,            \* what the server (or network) does to attempt 1, 2, ...
    pc,                \* "idle", "running", "done", "rejected"
    attempt,           \* the loop variable of request
    attempts,          \* session.request calls made so far
    sleeps,            \* the time.sleep calls made: <<[after |-> attempt, delay |-> d]>>
    http_call,         \* the call at hand: the API method and its arguments,
                       \* and request's method, url and data
    sent,              \* the session.request calls made: their keyword arguments
    last_error,        \* request's local last_error
    result,            \* how request ended: returned a body or raised
    \* http.py: calls of HttpClient._calculate_backoff
    backoff_calls,     \* <<[attempt |-> i, jitter |-> j, outcome |-> ...]>>
    \* utils.py and webhooks.py: the clock, int(time.time())
    now,
    \* utils.py: a signature header and one call of verify_signature
    sig_header,        \* the header at hand, a sequence of characters
    origin,            \* how the header was made
    vs_call,           \* the call of verify_signature: arguments and outcome
    \* webhooks.py: one WebhooksClient
    wh_secret,         \* WebhooksClient.secret
    wh_tolerance,      \* WebhooksClient.tolerance_seconds
    handlers,          \* WebhooksClient._handlers: event type -> handler
    processed_events,  \* WebhooksClient._processed_events
    wh_call,           \* the last call of a method: arguments and outcome
    \* api/subscriptions.py: one SubscriptionsApi
    cache_enabled,     \* SubscriptionsApi._cache_enabled
    cache_ttl,         \* SubscriptionsApi._cache_ttl
    cache,             \* SubscriptionsApi._cache: key -> (data, expiry_time)
    sub_call           \* the call of a method at hand: arguments and outcome

errVars  == <<pae_status, pae_body, pae_raised, pae_returned>>
httpVars == <<max_retries, json_error_is_request_exception, script, pc, attempt,
              attempts, sleeps, http_call, sent, last_error, result>>
sigVars  == <<sig_header, origin, vs_call>>
whVars   == <<wh_secret, wh_tolerance, handlers, processed_events, wh_call>>
subVars  == <<cache_enabled, cache_ttl, cache, sub_call>>
boVars   == <<backoff_calls>>
vars     == <<errVars, httpVars, now, sigVars, whVars, subVars, boVars>>

\* What an action of one subsystem leaves alone: the other subsystems
notErrVars  == <<httpVars, now, sigVars, whVars, subVars, boVars>>
notHttpVars == <<errVars, now, sigVars, whVars, subVars, boVars>>
notSigVars  == <<errVars, httpVars, whVars, subVars, boVars>>
notWhVars   == <<errVars, httpVars, sigVars, subVars, boVars>>
notSubVars  == <<errVars, httpVars, sigVars, whVars, boVars>>
notBoVars   == <<errVars, httpVars, now, sigVars, whVars, subVars>>

(***************************************************************************)
(* Bounds of the model.                                                    *)
(***************************************************************************)
MaxRetriesBound == 3     \* max_retries ranges over -1 .. MaxRetriesBound
JitterSteps     == 2     \* random.random() is one of j / JitterSteps, j < JitterSteps

Min(a, b) == IF a <= b THEN a ELSE b
Abs(a)    == IF a < 0 THEN -a ELSE a

RECURSIVE Pow2(_)
Pow2(n) == IF n <= 0 THEN 1 ELSE 2 * Pow2(n - 1)

\* 2 ** n is an exact integer of any size in Python.  Beyond 2^20 the model
\* keeps 2^20: the only use of the power is a minimum with max_delay, which
\* both are far beyond.
IntPow2(n) == Pow2(Min(n, 20))

(***************************************************************************)
(* JSON objects of the API (spec section 6: error responses are JSON       *)
(* objects with optional fields).  A field is the empty set when the key   *)
(* is absent and a singleton holding its value when present.               *)
(***************************************************************************)
EmptyBody ==
    [message |-> {}, error |-> {}, retry_after |-> {}, limit |-> {},
     remaining |-> {}, current_balance |-> {}, required |-> {}, success |-> {}]

\* dict.get(key, default) on a field of a body
Get(field, default) == IF field = {} THEN default ELSE CHOOSE v \in field : TRUE

\* Python truthiness of dict.get(key) for a string field: None and "" are falsy
Truthy(field) == field # {} /\ field # {""}

None == {}
Some(v) == {v}
Value(opt) == CHOOSE v \in opt : TRUE

\* An exception message: a text, with the values formatted into it
Msg(text) == [text |-> text, args |-> <<>>]
MsgF(text, args) == [text |-> text, args |-> args]

(***************************************************************************)
(* errors.py: the error classes.                                           *)
(***************************************************************************)
NoError == [cls |-> "None"]

OneSubError(message, code, status_code, details) ==
    [cls |-> "OneSubError", message |-> message, code |-> code,
     status_code |-> status_code, details |-> details]

AuthenticationError(message) ==
    [OneSubError(message, "UNAUTHORIZED", 401, EmptyBody)
        EXCEPT !.cls = "AuthenticationError"]

NotFoundError(message) ==
    [OneSubError(message, "NOT_FOUND", 404, EmptyBody)
        EXCEPT !.cls = "NotFoundError"]

RateLimitError(retry_after, limit, remaining) ==
    [cls |-> "RateLimitError",
     message |-> MsgF("Rate limit exceeded. Retry after {} seconds.", <<retry_after>>),
     code |-> "RATE_LIMIT_EXCEEDED", status_code |-> 429, details |-> EmptyBody,
     retry_after |-> retry_after, limit |-> limit, remaining |-> remaining]

\* (a variant that subtracts the other way round)
InsufficientCreditsError_Swapped(current_balance, required) ==
    [cls |-> "InsufficientCreditsError",
     message |-> MsgF("Insufficient credits. Current: {}, Required: {}",
                      <<current_balance, required>>),
     code |-> "INSUFFICIENT_CREDITS", status_code |-> 400, details |-> EmptyBody,
     current_balance |-> current_balance, required |-> required,
     shortfall |-> current_balance - required]
InsufficientCreditsError(current_balance, required) ==
    [cls |-> "InsufficientCreditsError",
     message |-> MsgF("Insufficient credits. Current: {}, Required: {}",
                      <<current_balance, required>>),
     code |-> "INSUFFICIENT_CREDITS", status_code |-> 400, details |-> EmptyBody,
     current_balance |-> current_balance, required |-> required,
     shortfall |-> required - current_balance]

ValidationError(message, details) ==
    [OneSubError(message, "VALIDATION_ERROR", 400, details)
        EXCEPT !.cls = "ValidationError"]

WebhookVerificationError(message) ==
    [OneSubError(message, "WEBHOOK_VERIFICATION_FAILED", 401, EmptyBody)
        EXCEPT !.cls = "WebhookVerificationError"]

\* An exception that is not a OneSubError (of Python or of a library): its
\* class and str(e)
BuiltinError(cls, text) == [cls |-> cls, text |-> text]

IsOneSubError(e) ==
    e.cls \in {"OneSubError", "AuthenticationError", "NotFoundError",
               "RateLimitError", "InsufficientCreditsError", "ValidationError",
               "InvalidCodeError", "WebhookVerificationError"}

(***************************************************************************)
(* errors.py: parse_api_error.  Every branch raises; the operator is the   *)
(* exception raised.                                                       *)
(***************************************************************************)
ErrorMessage(body) ==
    IF Truthy(body.message) THEN Get(body.message, "")
    ELSE IF Truthy(body.error) THEN Get(body.error, "")
    ELSE "Unknown error"

\* (a variant that writes the defaults as "body.get(key) or default")
GetOr(field, default) ==
    IF field = {} \/ field = {0} THEN default ELSE CHOOSE v \in field : TRUE
parse_api_error_FalsyDefaults(status_code, body) ==
    LET message == Msg(ErrorMessage(body)) IN
    IF status_code = 401 THEN AuthenticationError(message)
    ELSE IF status_code = 404 THEN NotFoundError(message)
    ELSE IF status_code = 429 THEN
        RateLimitError(GetOr(body.retry_after, 60), GetOr(body.limit, 100),
                       GetOr(body.remaining, 0))
    ELSE IF status_code = 400 THEN
        IF body.error = {"INSUFFICIENT_CREDITS"} THEN
            InsufficientCreditsError(GetOr(body.current_balance, 0),
                                     GetOr(body.required, 0))
        ELSE ValidationError(message, body)
    ELSE OneSubError(message, "API_ERROR", status_code, body)
parse_api_error(status_code, body) ==
    LET message == Msg(ErrorMessage(body)) IN
    IF status_code = 401 THEN AuthenticationError(message)
    ELSE IF status_code = 404 THEN NotFoundError(message)
    ELSE IF status_code = 429 THEN
        RateLimitError(Get(body.retry_after, 60), Get(body.limit, 100),
                       Get(body.remaining, 0))
    ELSE IF status_code = 400 THEN
        IF body.error = {"INSUFFICIENT_CREDITS"} THEN
            InsufficientCreditsError(Get(body.current_balance, 0),
                                     Get(body.required, 0))
        ELSE ValidationError(message, body)
    ELSE OneSubError(message, "API_ERROR", status_code, body)

(***************************************************************************)
(* SpecErrors: parse_api_error applied to a status code and a body.        *)
(***************************************************************************)
Statuses == {400, 401, 403, 404, 422, 429, 500, 503}

ErrBodies ==
    [message : {{}, {""}, {"not found"}},
     error : {{}, {""}, {"INSUFFICIENT_CREDITS"}, {"BAD_REQUEST"}},
     retry_after : {{}, {0}, {30}},
     limit : {{}, {50}},
     remaining : {{}, {7}},
     current_balance : {{}, {5}},
     required : {{}, {20}},
     success : {{}}]

ErrInit ==
    /\ pae_status = 0
    /\ pae_body = EmptyBody
    /\ pae_raised = NoError
    /\ pae_returned = FALSE

ParseApiError ==
    /\ pae_raised = NoError /\ ~pae_returned
    /\ \E s \in Statuses, b \in ErrBodies :
          /\ pae_status' = s
          /\ pae_body' = b
          /\ pae_raised' = parse_api_error(s, b)
          /\ pae_returned' = (parse_api_error(s, b) = NoError)
    /\ UNCHANGED notErrVars

(***************************************************************************)
(* http.py: HttpClient.                                                    *)
(***************************************************************************)
BaseDelay == 1     \* base_delay = 1.0
MaxDelay  == 30    \* max_delay = 30.0
Timeout   == 30    \* the default of HttpClient.timeout

\* What one session.request call meets: a response, or an exception of requests
Response(status, json, body, text) ==
    [kind |-> "response", status |-> status, json |-> json, body |-> body,
     text |-> text]
TimedOut == [kind |-> "timeout", status |-> 0, json |-> FALSE,
             body |-> EmptyBody, text |-> ""]
ConnectionFailed == [kind |-> "connection", status |-> 0, json |-> FALSE,
                     body |-> EmptyBody, text |-> ""]

\* The outcomes the attempts of the model meet.  An error response carries a
\* JSON object (spec section 6) or a text that is not JSON; a 2xx response
\* carries JSON or, like 204, no JSON at all.
HttpOutcomes ==
    { Response(200, TRUE, [EmptyBody EXCEPT !.success = {TRUE}], ""),
      Response(201, TRUE, [EmptyBody EXCEPT !.message = {"created"}], ""),
      Response(204, FALSE, EmptyBody, ""),
      Response(403, TRUE, [EmptyBody EXCEPT !.error = {"FORBIDDEN"}], ""),
      Response(404, TRUE, [EmptyBody EXCEPT !.message = {"not found"}], ""),
      Response(429, TRUE, [EmptyBody EXCEPT !.retry_after = {30}], ""),
      Response(500, FALSE, EmptyBody, "Internal Server Error"),
      TimedOut,
      ConnectionFailed }

\* requests.Response.ok: raise_for_status() raises for 400 <= status < 600
ResponseOk_Only200(r) == r.status = 200
ResponseOk(r) == ~(400 <= r.status /\ r.status < 600)

\* _calculate_backoff, in units of 1/JitterSteps second; jitter is the numerator
\* of random.random() = jitter / JitterSteps
calculate_backoff(at, jitter) ==
    LET delay == JitterSteps * BaseDelay * IntPow2(at)
    IN  Min(delay + jitter, JitterSteps * MaxDelay)

\* What Response.json() raises on a body that is not JSON
JsonError ==
    IF json_error_is_request_exception
    THEN BuiltinError("requests.JSONDecodeError", "Expecting value")
    ELSE BuiltinError("ValueError", "Expecting value")

Returned(value) == [kind |-> "return", value |-> value]
Raised(exc)     == [kind |-> "raise", exc |-> exc]
NoResult        == [kind |-> "none"]

\* The body handed to parse_api_error: the JSON body, or the text as message
ErrorBody(r) == IF r.json THEN r.body ELSE [EmptyBody EXCEPT !.message = {r.text}]

\* The body of the try statement of one iteration
TryBody_RaiseForStatus(r) ==
    IF r.kind = "timeout" THEN Raised(BuiltinError("Timeout", "timed out"))
    ELSE IF r.kind = "connection"
    THEN Raised(BuiltinError("ConnectionError", "connection failed"))
    ELSE IF ResponseOk(r)
    THEN IF r.json THEN Returned(r.body) ELSE Raised(JsonError)
    ELSE Raised(BuiltinError("HTTPError", "error response"))
TryBody(r) ==
    IF r.kind = "timeout" THEN Raised(BuiltinError("Timeout", "timed out"))
    ELSE IF r.kind = "connection"
    THEN Raised(BuiltinError("ConnectionError", "connection failed"))
    ELSE IF ResponseOk(r)
    THEN IF r.json THEN Returned(r.body) ELSE Raised(JsonError)
    ELSE Raised(parse_api_error(r.status, ErrorBody(r)))

\* The except clause that catches e: "reraise" (except OneSubError), "timeout",
\* "request_exception", or "uncaught" when none does
ExceptClause(e) ==
    IF IsOneSubError(e) THEN "reraise"
    ELSE IF e.cls = "Timeout" THEN "timeout"
    ELSE IF e.cls \in {"ConnectionError", "HTTPError", "requests.JSONDecodeError"}
    THEN "request_exception"
    ELSE "uncaught"

\* if attempt < self.max_retries
ShouldBackoff_AfterLast(at) == at <= max_retries
ShouldBackoff(at) == at < max_retries

Scripts(n) == [1..n -> HttpOutcomes]

\* HttpClient.base_url: the default of OneSub.__init__, after rstrip("/")
DefaultBaseUrl == <<"https://1sub.io/api/v1">>
RECURSIVE RStripSlash(_)
RStripSlash(pieces) ==
    IF pieces # <<>> /\ pieces[Len(pieces)] = "/"
    THEN RStripSlash(SubSeq(pieces, 1, Len(pieces) - 1))
    ELSE pieces
base_url == RStripSlash(DefaultBaseUrl)

\* url = f"{self.base_url}{path}"
Url(path) == base_url \o <<path>>

\* The keyword arguments of one session.request call
SessionRequest(method, url, data) ==
    [method |-> method, url |-> url, json |-> data, timeout |-> Timeout]

\* A call of request through a method of the API: op and args are the method
\* and its arguments; method, path and data are what it hands to request
HttpCall(op, args, method, path, data) ==
    [op |-> op, args |-> args, method |-> method, path |-> path, data |-> data]
NoHttpCall == [op |-> "none"]

\* HttpClient.get and HttpClient.post
get(path) == HttpCall("get", [path |-> path], "GET", path, None)
post(path, data) ==
    HttpCall("post", [path |-> path, data |-> data], "POST", path, Some(data))

\* len() of the texts given to consume
LongReason == "r * 501"
LongKey    == "k * 256"
TextLen(text) ==
    CASE text = "" -> 0
      [] text = LongReason -> 501
      [] text = LongKey -> 256
      [] OTHER -> 6

\* The validation of CreditsApi.consume: the ValidationError it raises, or
\* NoError when the arguments pass
consume_validation(user_id, amount, reason, idempotency_key) ==
    IF user_id = ""
    THEN ValidationError(Msg("user_id must be provided"), EmptyBody)
    ELSE IF amount <= 0
    THEN ValidationError(Msg("amount must be a positive integer"), EmptyBody)
    ELSE IF amount > 1000000
    THEN ValidationError(Msg("amount cannot exceed 1,000,000"), EmptyBody)
    ELSE IF reason = ""
    THEN ValidationError(Msg("reason must be provided"), EmptyBody)
    ELSE IF TextLen(reason) > 500
    THEN ValidationError(Msg("reason cannot exceed 500 characters"), EmptyBody)
    ELSE IF idempotency_key = ""
    THEN ValidationError(Msg("idempotency_key must be provided"), EmptyBody)
    ELSE IF TextLen(idempotency_key) > 255
    THEN ValidationError(Msg("idempotency_key cannot exceed 255 characters"),
                         EmptyBody)
    ELSE NoError

\* CreditsApi.consume after its validation: the post it makes
consume(user_id, amount, reason, idempotency_key) ==
    [post("/credits/consume",
          [user_id |-> user_id, amount |-> amount, reason |-> reason,
           idempotency_key |-> idempotency_key])
        EXCEPT !.op = "consume",
               !.args = [user_id |-> user_id, amount |-> amount,
                         reason |-> reason,
                         idempotency_key |-> idempotency_key]]

\* The arguments consume is called with: one set that passes the validation,
\* and the sets that fail one or more of its checks
ConsumeArgs ==
    [user_id : {"user_1", ""}, amount : {5, 0, 1000001},
     reason : {"export", "", LongReason},
     idempotency_key : {"key-01", "", LongKey}]
Rejection(a) ==
    consume_validation(a.user_id, a.amount, a.reason, a.idempotency_key)

\* The calls that reach request: the consume call that passes the validation
\* and a GET, which has no body
HttpCalls ==
    {consume(a.user_id, a.amount, a.reason, a.idempotency_key) :
        a \in {x \in ConsumeArgs : Rejection(x) = NoError}}
    \cup {get("/credits/balance")}

\* The locals of request before its loop: url is computed once
request(op, args, method, path, data) ==
    [op |-> op, args |-> args, method |-> method, path |-> path,
     url |-> Url(path), data |-> data]


HttpInit ==
    /\ max_retries \in -1..MaxRetriesBound
    /\ json_error_is_request_exception \in BOOLEAN
    /\ script = <<>>
    /\ pc = "idle"
    /\ attempt = 0
    /\ attempts = 0
    /\ sleeps = <<>>
    /\ http_call = NoHttpCall
    /\ sent = <<>>
    /\ last_error = NoError
    /\ result = NoResult

\* request is called; the server's behaviour during the call is fixed here
Request ==
    /\ pc = "idle"
    /\ \E s \in Scripts(max_retries + 1) : script' = s
    /\ \E c \in HttpCalls : http_call' = request(c.op, c.args, c.method, c.path, c.data)
    /\ pc' = "running"
    /\ attempt' = 0
    /\ last_error' = NoError
    /\ UNCHANGED <<max_retries, json_error_is_request_exception, attempts,
                   sleeps, sent, result>>
    /\ UNCHANGED notHttpVars

\* consume is called with arguments its validation refuses: it raises
\* before it reaches the transport
ConsumeRejected ==
    /\ pc = "idle"
    /\ \E a \in ConsumeArgs :
          /\ Rejection(a) # NoError
          /\ http_call' = [op |-> "consume", args |-> a]
          /\ result' = Raised(Rejection(a))
    /\ pc' = "rejected"
    /\ UNCHANGED <<max_retries, json_error_is_request_exception, script, attempt,
                   attempts, sleeps, sent, last_error>>
    /\ UNCHANGED notHttpVars

Finish(r) ==
    /\ result' = r
    /\ pc' = "done"
    /\ attempts' = attempts + 1
    /\ sent' = Append(sent, SessionRequest(http_call.method, http_call.url,
                                           http_call.data))
    /\ UNCHANGED <<attempt, sleeps, http_call, last_error>>

\* (a variant of Retry that makes a new idempotency key for the next attempt)
Retry_NewKey(err) ==
    /\ last_error' = err
    /\ \E jitter \in 0..(JitterSteps - 1) :
          sleeps' = IF ShouldBackoff(attempt)
                    THEN Append(sleeps, [after |-> attempt,
                                         delay |-> calculate_backoff(attempt, jitter)])
                    ELSE sleeps
    /\ attempt' = attempt + 1
    /\ attempts' = attempts + 1
    /\ sent' = Append(sent, SessionRequest(http_call.method, http_call.url,
                                           http_call.data))
    /\ http_call' =
          [http_call EXCEPT !.data =
              IF http_call.data = None THEN None
              ELSE Some([Value(http_call.data)
                            EXCEPT !.idempotency_key = "key-new"])]
    /\ UNCHANGED <<pc, result>>
\* last_error is set, then "Retry with backoff", then the next iteration
Retry(err) ==
    /\ last_error' = err
    /\ \E jitter \in 0..(JitterSteps - 1) :
          sleeps' = IF ShouldBackoff(attempt)
                    THEN Append(sleeps, [after |-> attempt,
                                         delay |-> calculate_backoff(attempt, jitter)])
                    ELSE sleeps
    /\ attempt' = attempt + 1
    /\ attempts' = attempts + 1
    /\ sent' = Append(sent, SessionRequest(http_call.method, http_call.url,
                                           http_call.data))
    /\ UNCHANGED <<pc, http_call, result>>

\* One iteration of the for loop, meeting outcome r
Iteration(r) ==
    /\ pc = "running"
    /\ attempt <= max_retries
    /\ LET o == TryBody(r) IN
       IF o.kind = "return" THEN Finish(o)
       ELSE LET clause == ExceptClause(o.exc) IN
            IF clause = "timeout"
            THEN Retry(OneSubError(MsgF("Request timed out after {}s", <<Timeout>>),
                                   "TIMEOUT", 0, EmptyBody))
            ELSE IF clause = "request_exception"
            THEN Retry(OneSubError(Msg(o.exc.text), "NETWORK_ERROR", 0, EmptyBody))
            ELSE Finish(o)
    /\ UNCHANGED <<max_retries, json_error_is_request_exception, script>>
    /\ UNCHANGED notHttpVars

Current == script[attempt + 1]

AttemptOk ==
    /\ pc = "running" /\ attempt <= max_retries
    /\ Current.kind = "response" /\ ResponseOk(Current)
    /\ Iteration(Current)

AttemptErrorResponse ==
    /\ pc = "running" /\ attempt <= max_retries
    /\ Current.kind = "response" /\ ~ResponseOk(Current)
    /\ Iteration(Current)

AttemptTimeout ==
    /\ pc = "running" /\ attempt <= max_retries
    /\ Current.kind = "timeout"
    /\ Iteration(Current)

AttemptConnectionError ==
    /\ pc = "running" /\ attempt <= max_retries
    /\ Current.kind = "connection"
    /\ Iteration(Current)

\* After the loop: raise last_error, or the generic error when there is none
Exhausted ==
    /\ pc = "running"
    /\ attempt > max_retries
    /\ result' = Raised(IF last_error # NoError THEN last_error
                        ELSE OneSubError(Msg("Request failed after retries"),
                                         "NETWORK_ERROR", 0, EmptyBody))
    /\ pc' = "done"
    /\ UNCHANGED <<max_retries, json_error_is_request_exception, script, attempt,
                   attempts, sleeps, http_call, sent, last_error>>
    /\ UNCHANGED notHttpVars

(***************************************************************************)
(* Strings.  A payload or a secret is a TLA+ string, with its bytes given  *)
(* by Utf8; a signature header and its fields are sequences of characters, *)
(* so that formatting and parsing them are computed.                       *)
(***************************************************************************)
DigitChars == <<"0", "1", "2", "3", "4", "5", "6", "7", "8", "9">>
HexChars   == <<"0", "1", "2", "3", "4", "5", "6", "7", "8", "9",
                "a", "b", "c", "d", "e", "f">>
NonAsciiChars == {"U+00E9"}    \* the character e-acute, as one character

IsDigit(c) == \E i \in 1..10 : DigitChars[i] = c
DigitVal(c) == (CHOOSE i \in 1..10 : DigitChars[i] = c) - 1

\* str.encode() of a payload or secret of the model
Utf8(s) ==
    CASE s = "" -> <<>>
       [] s = "not json" ->
            <<110, 111, 116, 32, 106, 115, 111, 110>>
       [] s = "[1]" ->
            <<91, 49, 93>>
       [] s = "{\"id\":\"evt_1\",\"type\":\"x\"}" ->
            <<123, 34, 105, 100, 34, 58, 34, 101, 118, 116, 95, 49, 34, 44, 34, 116, 121, 112, 101, 34, 58, 34, 120, 34, 125>>
       [] s = "{\"type\":\"x\"}" ->
            <<123, 34, 116, 121, 112, 101, 34, 58, 34, 120, 34, 125>>
       [] s = "whsec-1" ->
            <<119, 104, 115, 101, 99, 45, 49>>

\* the byte of an ASCII character of a timestamp field
CharCode(c) ==
    IF IsDigit(c) THEN 48 + DigitVal(c)
    ELSE CASE c = " " -> 32 [] c = "+" -> 43 [] c = "-" -> 45
           [] c = "_" -> 95 [] c = "x" -> 120 [] OTHER -> 63

EncodeChars(chars) == [i \in 1..Len(chars) |-> CharCode(chars[i])]

\* str(n)
RECURSIVE ToStr(_)
ToStr(n) ==
    IF n < 0 THEN <<"-">> \o ToStr(-n)
    ELSE IF n < 10 THEN <<DigitChars[n + 1]>>
    ELSE ToStr(n \div 10) \o <<DigitChars[(n % 10) + 1]>>

\* str.strip() of the blanks
RECURSIVE Strip(_)
Strip(chars) ==
    IF chars = <<>> THEN chars
    ELSE IF Head(chars) = " " THEN Strip(Tail(chars))
    ELSE IF chars[Len(chars)] = " " THEN Strip(SubSeq(chars, 1, Len(chars) - 1))
    ELSE chars

RECURSIVE DigitsValue(_, _)
DigitsValue(chars, acc) ==
    IF chars = <<>> THEN acc
    ELSE IF Head(chars) = "_" THEN DigitsValue(Tail(chars), acc)
    ELSE DigitsValue(Tail(chars), 10 * acc + DigitVal(Head(chars)))

\* int(s): blanks around, an optional sign, digits with single underscores
\* between them; anything else raises ValueError (ok = FALSE)
ParseInt(chars) ==
    LET s      == Strip(chars)
        signed == s # <<>> /\ s[1] \in {"+", "-"}
        body   == IF signed THEN Tail(s) ELSE s
        valid  == /\ body # <<>>
                  /\ \A i \in 1..Len(body) : IsDigit(body[i]) \/ body[i] = "_"
                  /\ body[1] # "_" /\ body[Len(body)] # "_"
                  /\ \A i \in 1..(Len(body) - 1) :
                        ~(body[i] = "_" /\ body[i + 1] = "_")
    IN  IF ~valid THEN [ok |-> FALSE, value |-> 0]
        ELSE [ok |-> TRUE,
              value |-> IF signed /\ s[1] = "-" THEN -DigitsValue(body, 0)
                        ELSE DigitsValue(body, 0)]

\* str.split(sep)
RECURSIVE Split(_, _)
Split(chars, sep) ==
    IF \A i \in 1..Len(chars) : chars[i] # sep THEN <<chars>>
    ELSE LET k == CHOOSE i \in 1..Len(chars) :
                     chars[i] = sep /\ \A j \in 1..(i - 1) : chars[j] # sep
         IN  <<SubSeq(chars, 1, k - 1)>> \o Split(SubSeq(chars, k + 1, Len(chars)), sep)

\* part.split("=", 1), for a part that holds "="
SplitFirst(chars, sep) ==
    LET k == CHOOSE i \in 1..Len(chars) :
                chars[i] = sep /\ \A j \in 1..(i - 1) : chars[j] # sep
    IN  <<SubSeq(chars, 1, k - 1), SubSeq(chars, k + 1, Len(chars))>>

(***************************************************************************)
(* utils.py: the signature header.                                         *)
(*                                                                         *)
(* HMAC-SHA256 is modelled by a keyed hash over the bytes of the key and   *)
(* of the message, written as DigestLen lower-case hex characters.  Like   *)
(* the real one it is deterministic and (checked, over the inputs of the   *)
(* model) free of collisions: NoDigestCollision.                           *)
(***************************************************************************)
DigestLen   == 6
HashModulus == 16777213
DefaultTolerance == 300

\* The hash folds h |-> (h * 31 + byte + 1) % HashModulus over the bytes,
\* from the first to the last.
HashStep(h, byte) == (h * 31 + byte + 1) % HashModulus

\* The fold from the i-th byte on, four bytes at a time while there are four
\* (h is looked at first, so that it is computed before more bytes are taken:
\* this keeps the evaluation shallow)
RECURSIVE HashFrom(_, _, _)
HashFrom(bytes, i, h) ==
    IF h < 0 \/ i > Len(bytes) THEN h
    ELSE IF i + 3 <= Len(bytes)
    THEN HashFrom(bytes, i + 4,
                  HashStep(HashStep(HashStep(HashStep(h, bytes[i]), bytes[i + 1]),
                                    bytes[i + 2]), bytes[i + 3]))
    ELSE HashFrom(bytes, i + 1, HashStep(h, bytes[i]))

HashBytes(bytes, h) == HashFrom(bytes, 1, h)

\* the n lowest hex digits of h, the highest first
ToHex(h, n) == [i \in 1..n |-> HexChars[((h \div (16 ^ (n - i))) % 16) + 1]]

\* hmac.new(secret.encode(), payload.encode(), hashlib.sha256).hexdigest();
\* message is payload.encode()
create_hmac_signature(message, secret) ==
    ToHex(HashBytes(Utf8(secret) \o <<256>> \o message, 7), DigestLen)

\* f"{timestamp}.{payload}".encode()
SignedPayload(timestamp, payload) ==
    EncodeChars(timestamp) \o <<46>> \o Utf8(payload)

\* the loop of parse_signature_header over header.split(",")
RECURSIVE ParseParts(_, _)
ParseParts(parts, acc) ==
    IF parts = <<>> THEN acc
    ELSE LET part == Head(parts) IN
         IF \E i \in 1..Len(part) : part[i] = "="
         THEN LET kv == SplitFirst(part, "=") IN
              ParseParts(Tail(parts),
                  IF kv[1] = <<"t">> THEN [acc EXCEPT !.timestamp = Some(kv[2])]
                  ELSE IF kv[1] = <<"v", "1">>
                  THEN [acc EXCEPT !.signature = Some(kv[2])]
                  ELSE acc)
         ELSE ParseParts(Tail(parts), acc)

parse_signature_header(hdr) ==
    ParseParts(Split(hdr, ","), [timestamp |-> None, signature |-> None])

\* hmac.compare_digest on two str: TypeError when either holds a non-ASCII
\* character, else whether they are equal
compare_digest(a, b) ==
    IF \/ \E i \in 1..Len(a) : a[i] \in NonAsciiChars
       \/ \E i \in 1..Len(b) : b[i] \in NonAsciiChars
    THEN Raised(BuiltinError("TypeError",
             "comparing strings with non-ASCII characters is not supported"))
    ELSE Returned(a = b)

\* verify_signature, with int(time.time()) = clock
verify_signature_ExclusiveBound(payload, signature, secret, tolerance_seconds, clock) ==
    LET parsed == parse_signature_header(signature) IN
    IF parsed.timestamp = None \/ parsed.timestamp = Some(<<>>)
       \/ parsed.signature = None \/ parsed.signature = Some(<<>>)
    THEN Returned(FALSE)
    ELSE LET timestamp == Value(parsed.timestamp)
             sig == Value(parsed.signature)
             ts  == ParseInt(timestamp)
         IN  IF ~ts.ok THEN Returned(FALSE)
             ELSE IF Abs(clock - ts.value) >= tolerance_seconds THEN Returned(FALSE)
             ELSE compare_digest(
                      create_hmac_signature(SignedPayload(timestamp, payload), secret),
                      sig)
verify_signature(payload, signature, secret, tolerance_seconds, clock) ==
    LET parsed == parse_signature_header(signature) IN
    IF parsed.timestamp = None \/ parsed.timestamp = Some(<<>>)
       \/ parsed.signature = None \/ parsed.signature = Some(<<>>)
    THEN Returned(FALSE)
    ELSE LET timestamp == Value(parsed.timestamp)
             sig == Value(parsed.signature)
             ts  == ParseInt(timestamp)
         IN  IF ~ts.ok THEN Returned(FALSE)
             ELSE IF Abs(clock - ts.value) > tolerance_seconds THEN Returned(FALSE)
             ELSE compare_digest(
                      create_hmac_signature(SignedPayload(timestamp, payload), secret),
                      sig)

\* generate_signature, with int(time.time()) = clock
generate_signature_PayloadFirst(payload, secret, clock) ==
    LET timestamp == ToStr(clock)
        sig == create_hmac_signature(
                   Utf8(payload) \o <<46>> \o EncodeChars(timestamp), secret)
    IN  <<"t", "=">> \o timestamp \o <<",", "v", "1", "=">> \o sig
generate_signature(payload, secret, clock) ==
    LET timestamp == ToStr(clock)
        sig == create_hmac_signature(SignedPayload(timestamp, payload), secret)
    IN  <<"t", "=">> \o timestamp \o <<",", "v", "1", "=">> \o sig

(***************************************************************************)
(* SpecSig: a header is generated by generate_signature or received from   *)
(* a sender, the clock moves, and verify_signature is called once.         *)
(***************************************************************************)
Epoch == 1000      \* the instant the model's times are centred on

Tolerances == {0, 1, DefaultTolerance}

Times == {Epoch + d : d \in {-(DefaultTolerance + 1), -DefaultTolerance, -1, 0, 1,
                             DefaultTolerance, DefaultTolerance + 1}}

Secrets  == {"", "whsec-1"}
Payloads == {"", "not json", "[1]", "{\"id\":\"evt_1\",\"type\":\"x\"}",
             "{\"type\":\"x\"}"}
SigPayloads == {"", "not json", "{\"type\":\"x\"}"}

\* The timestamp fields a sender may write: a time, or something else
TimestampFields ==
    {ToStr(t) : t \in Times}
    \cup {<<>>, ToStr(Epoch) \o <<"x">>, <<" ">> \o ToStr(Epoch),
          <<"+">> \o ToStr(Epoch), <<"0">> \o ToStr(Epoch)}

NextHex(c) ==
    LET i == CHOOSE k \in 1..16 : HexChars[k] = c IN HexChars[(i % 16) + 1]

\* the digest with its i-th hex character replaced by another one
FlipHex(digest, i) == [digest EXCEPT ![i] = NextHex(digest[i])]

\* The v1 fields a sender may write for a timestamp field: the digest of some
\* payload under some secret, or that digest damaged
SignatureFields(timestamp) ==
    LET digests == {create_hmac_signature(SignedPayload(timestamp, p), s) :
                        p \in SigPayloads, s \in Secrets}
    IN  digests
        \cup {FlipHex(d, i) : d \in digests, i \in 1..DigestLen}
        \cup {SubSeq(d, 1, DigestLen - 1) : d \in digests}
        \cup {d \o <<"0">> : d \in digests}
        \cup {[d EXCEPT ![1] = "U+00E9"] : d \in digests}
        \cup {<<>>, <<"z", "z">>}

KV(key, value) == key \o <<"=">> \o value
RECURSIVE Join(_, _)
Join(parts, sep) ==
    IF Len(parts) = 0 THEN <<>>
    ELSE IF Len(parts) = 1 THEN parts[1]
    ELSE parts[1] \o <<sep>> \o Join(Tail(parts), sep)

Layouts == {"t,v1", "v1,t", "t,junk,v1", "t", "v1", "old t,t,v1", "empty"}
\* the layouts whose t and v1 are the sender's timestamp and signature fields
FullLayouts == {"t,v1", "v1,t", "t,junk,v1", "old t,t,v1"}

FormatHeader(layout, timestamp, sig) ==
    LET t  == KV(<<"t">>, timestamp)
        v1 == KV(<<"v", "1">>, sig)
    IN  CASE layout = "t,v1"       -> Join(<<t, v1>>, ",")
          [] layout = "v1,t"       -> Join(<<v1, t>>, ",")
          [] layout = "t,junk,v1"  -> Join(<<t, <<"v", "0">>, v1>>, ",")
          [] layout = "t"          -> t
          [] layout = "v1"         -> v1
          [] layout = "old t,t,v1" -> Join(<<KV(<<"t">>, <<"1">>), t, v1>>, ",")
          [] layout = "empty"      -> <<>>

NoOrigin == [kind |-> "none", layout |-> "empty", timestamp |-> <<>>, sig |-> <<>>]
NoCall   == [op |-> "none"]

\* The keyed hash has no collision among the messages of the model
NoDigestCollision ==
    LET inputs == {<<s, t, p>> : s \in Secrets, t \in TimestampFields, p \in Payloads}
        digest(x) == create_hmac_signature(SignedPayload(x[2], x[3]), x[1])
    IN  \A x \in inputs, y \in inputs : digest(x) = digest(y) => x = y

SigInit ==
    /\ now \in Times
    /\ sig_header = <<>>
    /\ origin = NoOrigin
    /\ vs_call = NoCall

\* the clock moves (it may be set back)
Tick ==
    /\ vs_call = NoCall /\ wh_call = NoCall
    /\ \E t \in Times \ {now} : now' = t
    /\ UNCHANGED <<sigVars, whVars, errVars, httpVars, subVars, boVars>>

GenerateSignature ==
    /\ origin.kind = "none"
    /\ \E p \in SigPayloads, s \in Secrets :
          /\ sig_header' = generate_signature(p, s, now)
          /\ origin' = [kind |-> "generated", layout |-> "t,v1",
                        timestamp |-> ToStr(now),
                        sig |-> create_hmac_signature(
                                    SignedPayload(ToStr(now), p), s),
                        payload |-> p, secret |-> s, at |-> now]
    /\ UNCHANGED <<now, vs_call>>
    /\ UNCHANGED notSigVars

ReceiveHeader ==
    /\ origin.kind = "none"
    /\ \E layout \in Layouts, timestamp \in TimestampFields :
          \E sig \in SignatureFields(timestamp) :
             /\ sig_header' = FormatHeader(layout, timestamp, sig)
             /\ origin' = [kind |-> "received", layout |-> layout,
                           timestamp |-> timestamp, sig |-> sig]
    /\ UNCHANGED <<now, vs_call>>
    /\ UNCHANGED notSigVars

VerifySignature ==
    /\ origin.kind # "none"
    /\ vs_call = NoCall
    /\ \E p \in SigPayloads, s \in Secrets, tol \in Tolerances :
          vs_call' = [op |-> "verify_signature", payload |-> p, secret |-> s,
                      tolerance_seconds |-> tol, at |-> now,
                      result |-> verify_signature(p, sig_header, s, tol, now)]
    /\ UNCHANGED <<now, sig_header, origin>>
    /\ UNCHANGED notSigVars

(***************************************************************************)
(* webhooks.py: WebhooksClient.                                            *)
(***************************************************************************)
\* json.loads on the payloads of the model: ok = FALSE is json.JSONDecodeError.
\* A parsed value is an object with its optional id and type, or another
\* JSON value.
JsonObject(doc, id, type) == [doc |-> doc, isobj |-> TRUE, id |-> id, type |-> type]
JsonOther(doc) == [doc |-> doc, isobj |-> FALSE, id |-> None, type |-> None]

JsonLoads(payload) ==
    CASE payload = "{\"id\":\"evt_1\",\"type\":\"x\"}" ->
            [ok |-> TRUE, value |-> JsonObject(payload, Some("evt_1"), Some("x"))]
      [] payload = "{\"type\":\"x\"}" ->
            [ok |-> TRUE, value |-> JsonObject(payload, None, Some("x"))]
      [] payload = "[1]" ->
            [ok |-> TRUE, value |-> JsonOther(payload)]
      [] OTHER ->
            [ok |-> FALSE, value |-> JsonOther(payload)]

\* The senders of a webhook request: one that signs a payload with a secret
\* at its own time, one whose signature then has its first character flipped
\* or replaced by a non-ASCII character, and one that sends no header
SenderKinds == {"signed", "flipped", "non_ascii"}
Senders ==
    [kind : SenderKinds, payload : Payloads, secret : Secrets, at : Times]
    \cup {[kind |-> "no_header", payload |-> "", secret |-> "", at |-> Epoch]}

HeaderOf(sender) ==
    LET timestamp == ToStr(sender.at)
        digest == create_hmac_signature(SignedPayload(timestamp, sender.payload),
                                        sender.secret)
    IN  CASE sender.kind = "signed" ->
                generate_signature(sender.payload, sender.secret, sender.at)
          [] sender.kind = "flipped" ->
                FormatHeader("t,v1", timestamp, FlipHex(digest, 1))
          [] sender.kind = "non_ascii" ->
                FormatHeader("t,v1", timestamp, [digest EXCEPT ![1] = "U+00E9"])
          [] sender.kind = "no_header" -> <<>>

\* WebhooksClient.verify
verify(payload, signature) ==
    IF payload = "" \/ signature = <<>> THEN Returned(FALSE)
    ELSE verify_signature(payload, signature, wh_secret, wh_tolerance, now)

\* WebhooksClient.verify_or_raise
verify_or_raise(payload, signature) ==
    LET v == verify(payload, signature) IN
    IF v.kind = "raise" THEN v
    ELSE IF ~v.value
    THEN Raised(WebhookVerificationError(Msg("Invalid webhook signature")))
    ELSE Returned("None")

\* WebhooksClient.construct_event: the outcome, and whether json.loads ran
construct_event(payload, signature) ==
    LET v == verify_or_raise(payload, signature) IN
    IF v.kind = "raise" THEN [outcome |-> v, parsed |-> FALSE]
    ELSE LET j == JsonLoads(payload) IN
         [outcome |-> IF j.ok THEN Returned(j.value)
                      ELSE Raised(WebhookVerificationError(
                               Msg("Invalid webhook payload"))),
          parsed |-> TRUE]

\* _handlers = {}
NoHandlers == [t \in {} |-> "h1"]

WhInit ==
    /\ now \in Times
    /\ wh_secret \in Secrets
    /\ wh_tolerance \in Tolerances
    /\ handlers = NoHandlers
    /\ processed_events = {}
    /\ wh_call = NoCall

\* The methods below read the client and the clock and change nothing: the
\* model follows one call of them from every state of the client and clock.
Call(op, payload, sender, outcome, parsed) ==
    [op |-> op, payload |-> payload, sender |-> sender, at |-> now,
     outcome |-> outcome, parsed |-> parsed]

Verify ==
    /\ wh_call = NoCall
    /\ \E payload \in Payloads, sender \in Senders :
          wh_call' = Call("verify", payload, sender,
                          verify(payload, HeaderOf(sender)), FALSE)
    /\ UNCHANGED <<now, wh_secret, wh_tolerance, handlers, processed_events>>
    /\ UNCHANGED notWhVars

VerifyOrRaise ==
    /\ wh_call = NoCall
    /\ \E payload \in Payloads, sender \in Senders :
          wh_call' = Call("verify_or_raise", payload, sender,
                          verify_or_raise(payload, HeaderOf(sender)), FALSE)
    /\ UNCHANGED <<now, wh_secret, wh_tolerance, handlers, processed_events>>
    /\ UNCHANGED notWhVars

ConstructEvent ==
    /\ wh_call = NoCall
    /\ \E payload \in Payloads, sender \in Senders :
          LET r == construct_event(payload, HeaderOf(sender)) IN
          wh_call' = Call("construct_event", payload, sender, r.outcome, r.parsed)
    /\ UNCHANGED <<now, wh_secret, wh_tolerance, handlers, processed_events>>
    /\ UNCHANGED notWhVars

(***************************************************************************)
(* webhooks.py: the dispatcher of WebhooksClient (on, off, handle, process, *)
(* is_processed, clear_processed).                                         *)
(***************************************************************************)
\* _max_processed, the capacity of the processed set: 10000 in the source,
\* scaled down so that the set of the model fills up
MaxProcessed == 2

EventIds     == {"evt_1", "evt_2", "evt_3"}
EventTypes   == {"x", "y"}
\* the event types a handler is registered for: "" is what handle looks up
\* for an event that carries no type
HandlerTypes == EventTypes \cup {""}
\* The handlers an application registers: h1 and h2 return, h_fail raises
Handlers == {"h1", "h2", "h_fail"}
HandlerRaises(handler) == handler = "h_fail"
HandlerError == BuiltinError("RuntimeError", "handler failed")

\* The events handed to handle directly: dicts with an optional id and type
Events ==
    {JsonObject("dict", id, type) :
        id \in {None} \cup {Some(i) : i \in EventIds},
        type \in {None} \cup {Some(t) : t \in EventTypes}}

\* (a variant of on that keeps the handler a type already has)
on_KeepFirst(event_type, handler) ==
    [t \in DOMAIN handlers \cup {event_type} |->
        IF t \in DOMAIN handlers THEN handlers[t] ELSE handler]
\* WebhooksClient.on and off, as the new value of _handlers
on(event_type, handler) ==
    [t \in DOMAIN handlers \cup {event_type} |->
        IF t = event_type THEN handler ELSE handlers[t]]

off(event_type) ==
    [t \in DOMAIN handlers \ {event_type} |-> handlers[t]]

\* (a variant of _mark_processed that pops whenever the set is not empty)
mark_processed_AlwaysPop(processed, event_id, victim) ==
    (IF processed = {} THEN processed
     ELSE processed \ {CHOOSE v \in processed : TRUE}) \cup {event_id}
\* (a variant of _mark_processed that never pops)
mark_processed_NoPop(processed, event_id, victim) == processed \cup {event_id}
\* WebhooksClient._mark_processed: set.pop() removes an arbitrary member,
\* the victim
mark_processed(processed, event_id, victim) ==
    (IF Cardinality(processed) >= MaxProcessed
     THEN processed \ {victim} ELSE processed) \cup {event_id}

\* the members set.pop() may remove ("" stands for no pop at all)
Victims == IF Cardinality(processed_events) >= MaxProcessed
           THEN processed_events ELSE {""}

\* WebhooksClient.is_processed
is_processed(event_id) == event_id \in processed_events

\* One invocation of a handler: the handler, the event it is given and the
\* processed set as it is when the handler is entered
Invocation(handler, event, processed) ==
    [handler |-> handler, event |-> event, processed |-> processed]

Handled(outcome, invoked, processed) ==
    [outcome |-> outcome, invoked |-> invoked, processed |-> processed]

\* (variants of handle: without the duplicate check; marking the event
\* processed before the handler is looked up; marking it processed after the
\* handler has returned)
handle_NoDuplicateCheck(event, victim) ==
    LET event_id == Get(event.id, "")
        event_type == Get(event.type, "")
    IN
    IF event_type \notin DOMAIN handlers
    THEN Handled(Returned(FALSE), <<>>, processed_events)
    ELSE
    LET handler == handlers[event_type]
        marked  == mark_processed(processed_events \ {event_id}, event_id, victim)
    IN  Handled(IF HandlerRaises(handler) THEN Raised(HandlerError)
                ELSE Returned(TRUE),
                <<Invocation(handler, event, marked)>>, marked)
handle_MarkBeforeLookup(event, victim) ==
    LET event_id == Get(event.id, "")
        event_type == Get(event.type, "")
        marked == mark_processed(processed_events, event_id, victim)
    IN
    IF event_id \in processed_events
    THEN Handled(Returned(TRUE), <<>>, processed_events)
    ELSE IF event_type \notin DOMAIN handlers
    THEN Handled(Returned(FALSE), <<>>, marked)
    ELSE Handled(IF HandlerRaises(handlers[event_type]) THEN Raised(HandlerError)
                 ELSE Returned(TRUE),
                 <<Invocation(handlers[event_type], event, marked)>>, marked)
handle_MarkAfterHandler(event, victim) ==
    LET event_id == Get(event.id, "")
        event_type == Get(event.type, "")
        marked == mark_processed(processed_events, event_id, victim)
    IN
    IF event_id \in processed_events
    THEN Handled(Returned(TRUE), <<>>, processed_events)
    ELSE IF event_type \notin DOMAIN handlers
    THEN Handled(Returned(FALSE), <<>>, processed_events)
    ELSE IF HandlerRaises(handlers[event_type])
    THEN Handled(Raised(HandlerError),
                 <<Invocation(handlers[event_type], event, processed_events)>>,
                 processed_events)
    ELSE Handled(Returned(TRUE),
                 <<Invocation(handlers[event_type], event, processed_events)>>,
                 marked)
\* (a variant of handle whose default for a missing id is the type of the
\* event, so that id-less events of different types are different events)
handle_DefaultIdFromType(event, victim) ==
    IF ~event.isobj
    THEN Handled(Raised(BuiltinError("AttributeError",
                                     "'list' object has no attribute 'get'")),
                 <<>>, processed_events)
    ELSE
    LET event_type == Get(event.type, "")
        event_id == Get(event.id, event_type)
    IN
    IF event_id \in processed_events
    THEN Handled(Returned(TRUE), <<>>, processed_events)
    ELSE IF event_type \notin DOMAIN handlers
    THEN Handled(Returned(FALSE), <<>>, processed_events)
    ELSE
    LET handler == handlers[event_type]
        marked  == mark_processed(processed_events, event_id, victim)
    IN  Handled(IF HandlerRaises(handler) THEN Raised(HandlerError)
                ELSE Returned(TRUE),
                <<Invocation(handler, event, marked)>>, marked)
\* WebhooksClient.handle: its outcome, the handlers it invoked and the
\* processed set it leaves.  event.get on a JSON value that is not an object
\* (process hands over whatever json.loads returned) is an AttributeError.
handle(event, victim) ==
    IF ~event.isobj
    THEN Handled(Raised(BuiltinError("AttributeError",
                                     "'list' object has no attribute 'get'")),
                 <<>>, processed_events)
    ELSE
    LET event_id == Get(event.id, "") IN
    IF event_id \in processed_events
    THEN Handled(Returned(TRUE), <<>>, processed_events)
    ELSE
    LET event_type == Get(event.type, "") IN
    IF event_type \notin DOMAIN handlers
    THEN Handled(Returned(FALSE), <<>>, processed_events)
    ELSE
    LET handler == handlers[event_type]
        marked  == mark_processed(processed_events, event_id, victim)
    IN  Handled(IF HandlerRaises(handler) THEN Raised(HandlerError)
                ELSE Returned(TRUE),
                <<Invocation(handler, event, marked)>>, marked)

\* WebhooksClient.process: construct_event, then handle, then the event.
\* ProcessReturn is its last two lines, given what handle did; ProcessHandle
\* is what follows construct_event, given how that ended (an exception of
\* construct_event or of handle propagates).
\* (a variant of process that fails when handle returned False)
ProcessReturn_RaiseUnhandled(event, h) ==
    [outcome |-> IF h.outcome.kind = "raise" THEN h.outcome
                 ELSE IF ~h.outcome.value
                 THEN Raised(WebhookVerificationError(Msg("Unhandled event")))
                 ELSE Returned(event),
     invoked |-> h.invoked, processed |-> h.processed, handled |-> h.outcome]
ProcessReturn(event, h) ==
    [outcome |-> IF h.outcome.kind = "raise" THEN h.outcome
                 ELSE Returned(event),
     invoked |-> h.invoked, processed |-> h.processed, handled |-> h.outcome]

\* (a variant of process that records the event "" as processed when
\* construct_event failed)
ProcessHandle_MarkOnFailure(constructed, victim) ==
    IF constructed.kind = "raise"
    THEN [outcome |-> constructed, invoked |-> <<>>,
          processed |-> processed_events \cup {""}, handled |-> NoResult]
    ELSE ProcessReturn(constructed.value, handle(constructed.value, victim))
ProcessHandle(constructed, victim) ==
    IF constructed.kind = "raise"
    THEN [outcome |-> constructed, invoked |-> <<>>,
          processed |-> processed_events, handled |-> NoResult]
    ELSE ProcessReturn(constructed.value, handle(constructed.value, victim))

process(payload, signature, victim) ==
    ProcessHandle(construct_event(payload, signature).outcome, victim)

\* The senders of the requests given to process.  Each signs the payload it
\* sends: with either secret now, or with the client's secret longer ago
\* than the tolerance; or it spoils the signature it made with the client's
\* secret; or it sends no header.
DispatchSenders(payload) ==
    [kind : {"signed"}, payload : {payload}, secret : Secrets, at : {now}]
    \cup [kind : {"signed"}, payload : {payload}, secret : {wh_secret},
          at : {now - (DefaultTolerance + 1)}]
    \cup [kind : {"flipped", "non_ascii"}, payload : {payload},
          secret : {wh_secret}, at : {now}]
    \cup {[kind |-> "no_header", payload |-> "", secret |-> "", at |-> Epoch]}

DispatchInit ==
    /\ now = Epoch
    /\ wh_secret \in Secrets
    /\ wh_tolerance = DefaultTolerance
    /\ handlers = NoHandlers
    /\ processed_events = {}
    /\ wh_call = NoCall

\* A call of a method of the dispatcher: its arguments, its outcome, the
\* handlers it invoked, and the client as it was before the call.  The
\* methods are synchronous: the next call starts when the caller has taken
\* the outcome of this one (Return).
DispatchCall(op, args, outcome, invoked) ==
    [op |-> op, args |-> args, outcome |-> outcome, invoked |-> invoked,
     handlers_before |-> handlers, processed_before |-> processed_events]

On ==
    /\ wh_call = NoCall
    /\ \E event_type \in HandlerTypes, handler \in Handlers :
          /\ handlers' = on(event_type, handler)
          /\ wh_call' = DispatchCall("on",
                            [event_type |-> event_type, handler |-> handler],
                            Returned("self"), <<>>)
    /\ UNCHANGED <<now, wh_secret, wh_tolerance, processed_events>>
    /\ UNCHANGED notWhVars

Off ==
    /\ wh_call = NoCall
    /\ \E event_type \in HandlerTypes :
          /\ handlers' = off(event_type)
          /\ wh_call' = DispatchCall("off", [event_type |-> event_type],
                                     Returned("self"), <<>>)
    /\ UNCHANGED <<now, wh_secret, wh_tolerance, processed_events>>
    /\ UNCHANGED notWhVars

Handle ==
    /\ wh_call = NoCall
    /\ \E event \in Events, victim \in Victims :
          LET h == handle(event, victim) IN
          /\ processed_events' = h.processed
          /\ wh_call' = DispatchCall("handle", [event |-> event],
                                     h.outcome, h.invoked)
    /\ UNCHANGED <<now, wh_secret, wh_tolerance, handlers>>
    /\ UNCHANGED notWhVars

Process ==
    /\ wh_call = NoCall
    /\ \E payload \in Payloads, victim \in Victims :
          \E sender \in DispatchSenders(payload) :
             \E signature \in {HeaderOf(sender)} :
             \E r \in {process(payload, signature, victim)} :
             /\ processed_events' = r.processed
             /\ wh_call' = DispatchCall("process",
                               [payload |-> payload, sender |-> sender,
                                handled |-> r.handled],
                               r.outcome, r.invoked)
    /\ UNCHANGED <<now, wh_secret, wh_tolerance, handlers>>
    /\ UNCHANGED notWhVars

\* verify, verify_or_raise and construct_event on the client of the dispatcher:
\* a payload that is JSON and one that is not, from each sender
FramePayloads == {"not json", "{\"id\":\"evt_1\",\"type\":\"x\"}"}

DispatchVerify ==
    /\ wh_call = NoCall
    /\ \E payload \in FramePayloads :
          \E sender \in DispatchSenders(payload) :
             \E signature \in {HeaderOf(sender)} :
                wh_call' = DispatchCall("verify",
                               [payload |-> payload, sender |-> sender],
                               verify(payload, signature), <<>>)
    /\ UNCHANGED <<now, wh_secret, wh_tolerance, handlers, processed_events>>
    /\ UNCHANGED notWhVars

DispatchVerifyOrRaise ==
    /\ wh_call = NoCall
    /\ \E payload \in FramePayloads :
          \E sender \in DispatchSenders(payload) :
             \E signature \in {HeaderOf(sender)} :
                wh_call' = DispatchCall("verify_or_raise",
                               [payload |-> payload, sender |-> sender],
                               verify_or_raise(payload, signature), <<>>)
    /\ UNCHANGED <<now, wh_secret, wh_tolerance, handlers, processed_events>>
    /\ UNCHANGED notWhVars

DispatchConstructEvent ==
    /\ wh_call = NoCall
    /\ \E payload \in FramePayloads :
          \E sender \in DispatchSenders(payload) :
             \E signature \in {HeaderOf(sender)} :
                wh_call' = DispatchCall("construct_event",
                               [payload |-> payload, sender |-> sender],
                               construct_event(payload, signature).outcome, <<>>)
    /\ UNCHANGED <<now, wh_secret, wh_tolerance, handlers, processed_events>>
    /\ UNCHANGED notWhVars

IsProcessed ==
    /\ wh_call = NoCall
    /\ \E event_id \in EventIds \cup {""} :
          wh_call' = DispatchCall("is_processed", [event_id |-> event_id],
                                  Returned(is_processed(event_id)), <<>>)
    /\ UNCHANGED <<now, wh_secret, wh_tolerance, handlers, processed_events>>
    /\ UNCHANGED notWhVars

ClearProcessed ==
    /\ wh_call = NoCall
    /\ processed_events' = {}
    /\ wh_call' = DispatchCall("clear_processed", <<>>, Returned("None"), <<>>)
    /\ UNCHANGED <<now, wh_secret, wh_tolerance, handlers>>
    /\ UNCHANGED notWhVars

\* the caller takes the outcome of the call
Return ==
    /\ wh_call # NoCall
    /\ wh_call' = NoCall
    /\ UNCHANGED <<now, wh_secret, wh_tolerance, handlers, processed_events>>
    /\ UNCHANGED notWhVars

(***************************************************************************)
(* api/subscriptions.py: SubscriptionsApi and its cache.  An identifier is  *)
(* a sequence of pieces of text, so that the key f"sub:{id}" is computed:  *)
(* the id "u1" is <<"u1">> and its key <<"sub:", "u1">>.                   *)
(***************************************************************************)
CacheTtl   == 2      \* cache_ttl (60 by default), in ticks of the clock
MaxElapsed == 3      \* the clock runs from Epoch to Epoch + MaxElapsed

UserIds     == {<<"u1">>, <<"u2">>}
ToolUserIds == {<<"t1">>}
EmailHashes == {<<"e1">>}

Key(id) == <<"sub:">> \o id

NoCache == [k \in {} |-> [data |-> <<>>, expiry |-> 0]]

\* "not x" of an optional string: None and "" are falsy
Falsy(opt) == opt = None \/ opt = Some(<<>>)

\* onesub_user_id or tool_user_id or email_sha256
FirstTruthy(a, b, c) ==
    IF ~Falsy(a) THEN Value(a) ELSE IF ~Falsy(b) THEN Value(b) ELSE Value(c)

Without(c, key) == [k \in DOMAIN c \ {key} |-> c[k]]

\* (a variant of _get_cached that still serves an entry at its expiry time)
get_cached_InclusiveExpiry(key) ==
    IF ~cache_enabled THEN [hit |-> None, cache |-> cache]
    ELSE IF key \in DOMAIN cache
    THEN IF now <= cache[key].expiry
         THEN [hit |-> Some(cache[key].data), cache |-> cache]
         ELSE [hit |-> None, cache |-> Without(cache, key)]
    ELSE [hit |-> None, cache |-> cache]
\* SubscriptionsApi._get_cached: what it returns (None or the data) and the
\* cache it leaves, an expired entry deleted
get_cached(key) ==
    IF ~cache_enabled THEN [hit |-> None, cache |-> cache]
    ELSE IF key \in DOMAIN cache
    THEN IF now < cache[key].expiry
         THEN [hit |-> Some(cache[key].data), cache |-> cache]
         ELSE [hit |-> None, cache |-> Without(cache, key)]
    ELSE [hit |-> None, cache |-> cache]

\* SubscriptionsApi._set_cached, on the cache c
set_cached(c, key, data) ==
    IF cache_enabled
    THEN [k \in DOMAIN c \cup {key} |->
             IF k = key THEN [data |-> data, expiry |-> now + cache_ttl]
             ELSE c[k]]
    ELSE c

\* The answers of the transport to POST /tools/subscriptions/verify: the
\* subscription data, with or without oneSubUserId, as fetched now, or an
\* error
SubscriptionData(id) == [oneSubUserId |-> id, fetched_at |-> now]
SubResponses ==
    {Returned(SubscriptionData(id)) : id \in {None} \cup {Some(u) : u \in UserIds}}
    \cup {Raised(NotFoundError(Msg("not found")))}

Params(onesub_user_id, tool_user_id, email_sha256) ==
    [oneSubUserId |-> IF Falsy(onesub_user_id) THEN None ELSE onesub_user_id,
     toolUserId   |-> IF Falsy(tool_user_id) THEN None ELSE tool_user_id,
     emailSha256  |-> IF Falsy(email_sha256) THEN None ELSE email_sha256]

SubResult(outcome, requests, c) ==
    [outcome |-> outcome, requests |-> requests, cache |-> c]

\* SubscriptionsApi.verify, lines 73-79: cache the response, return it
CacheResponse(c, cache_key, data) ==
    IF Falsy(data.oneSubUserId) THEN c
    ELSE IF cache_key # Value(data.oneSubUserId)
    THEN set_cached(set_cached(c, Key(Value(data.oneSubUserId)), data),
                    Key(cache_key), data)
    ELSE set_cached(c, Key(Value(data.oneSubUserId)), data)

\* SubscriptionsApi.verify, lines 59-79, given what _get_cached returned
VerifyAfterLookup(cached, cache_key, params, response) ==
    IF cached.hit # None
    THEN SubResult(Returned(Value(cached.hit)), <<>>, cached.cache)
    ELSE IF response.kind = "raise"
    THEN SubResult(response, <<params>>, cached.cache)
    ELSE SubResult(response, <<params>>,
                   CacheResponse(cached.cache, cache_key, response.value))

\* SubscriptionsApi.verify: its outcome, the requests it gave to the
\* transport and the cache it leaves
subscriptions_verify(onesub_user_id, tool_user_id, email_sha256, response) ==
    IF Falsy(onesub_user_id) /\ Falsy(tool_user_id) /\ Falsy(email_sha256)
    THEN SubResult(Raised(ValidationError(
             Msg("At least one of onesub_user_id, tool_user_id, or email_sha256 must be provided"),
             EmptyBody)), <<>>, cache)
    ELSE VerifyAfterLookup(
             get_cached(Key(FirstTruthy(onesub_user_id, tool_user_id, email_sha256))),
             FirstTruthy(onesub_user_id, tool_user_id, email_sha256),
             Params(onesub_user_id, tool_user_id, email_sha256), response)

\* SubscriptionsApi.invalidate_cache: the membership test is on the id as
\* given, the deletion on its key; del of a missing key is a KeyError
invalidate_cache(onesub_user_id) ==
    IF onesub_user_id \in DOMAIN cache
    THEN IF Key(onesub_user_id) \in DOMAIN cache
         THEN SubResult(Returned("None"), <<>>, Without(cache, Key(onesub_user_id)))
         ELSE SubResult(Raised(BuiltinError("KeyError", "sub:...")), <<>>, cache)
    ELSE SubResult(Returned("None"), <<>>, cache)

SubInit ==
    /\ now = Epoch
    /\ cache_enabled \in BOOLEAN
    /\ cache_ttl = CacheTtl
    /\ cache = NoCache
    /\ sub_call = NoCall

\* A call of a method of SubscriptionsApi: its arguments, its outcome, the
\* requests it gave to the transport, the clock and the cache as they were
SubCall(op, args, r) ==
    [op |-> op, args |-> args, outcome |-> r.outcome, requests |-> r.requests,
     at |-> now, cache_before |-> cache]

SubscriptionsVerify ==
    /\ sub_call = NoCall
    /\ \E onesub_user_id \in {None, Some(<<>>)} \cup {Some(u) : u \in UserIds},
          tool_user_id \in {None} \cup {Some(t) : t \in ToolUserIds},
          email_sha256 \in {None} \cup {Some(e) : e \in EmailHashes},
          response \in SubResponses :
          \E r \in {subscriptions_verify(onesub_user_id, tool_user_id,
                                         email_sha256, response)} :
             /\ cache' = r.cache
             /\ sub_call' = SubCall("verify",
                                [onesub_user_id |-> onesub_user_id,
                                 tool_user_id |-> tool_user_id,
                                 email_sha256 |-> email_sha256], r)
    /\ UNCHANGED <<now, cache_enabled, cache_ttl>>
    /\ UNCHANGED notSubVars

\* invalidate_cache is given an id, or by mistake the key of one
InvalidateCache ==
    /\ sub_call = NoCall
    /\ \E onesub_user_id \in UserIds \cup {Key(u) : u \in UserIds} :
          \E r \in {invalidate_cache(onesub_user_id)} :
             /\ cache' = r.cache
             /\ sub_call' = SubCall("invalidate_cache",
                                [onesub_user_id |-> onesub_user_id], r)
    /\ UNCHANGED <<now, cache_enabled, cache_ttl>>
    /\ UNCHANGED notSubVars

\* SubscriptionsApi.clear_cache
ClearCache ==
    /\ sub_call = NoCall
    /\ cache' = NoCache
    /\ sub_call' = SubCall("clear_cache", <<>>,
                           SubResult(Returned("None"), <<>>, NoCache))
    /\ UNCHANGED <<now, cache_enabled, cache_ttl>>
    /\ UNCHANGED notSubVars

\* the caller takes the outcome of the call
SubReturn ==
    /\ sub_call # NoCall
    /\ sub_call' = NoCall
    /\ UNCHANGED <<now, cache_enabled, cache_ttl, cache>>
    /\ UNCHANGED notSubVars

\* time passes between two calls
Elapse ==
    /\ sub_call = NoCall
    /\ now < Epoch + MaxElapsed
    /\ now' = now + 1
    /\ UNCHANGED subVars
    /\ UNCHANGED <<errVars, httpVars, sigVars, whVars, boVars>>

(***************************************************************************)
(* http.py: HttpClient._calculate_backoff as a function of the attempt.    *)
(* request calls it with attempt = 0, 1, ... max_retries - 1, and          *)
(* max_retries is any integer the application passes to OneSub or          *)
(* HttpClient.                                                             *)
(***************************************************************************)
\* base_delay * (2 ** attempt) converts the integer 2 ** attempt to a float:
\* from 2 ** 1024 on (sys.float_info.max_exp) that is an OverflowError
FloatMaxExp == 1024

MaxBackoffAttempt == 6   \* the small attempts of the model: 0 .. MaxBackoffAttempt
MaxBackoffCalls   == 2   \* the calls of _calculate_backoff the model records

\* the attempts _calculate_backoff is called with: the first ones, and the
\* ones around the end of the floats
BackoffAttempts == (0..MaxBackoffAttempt) \cup {FloatMaxExp - 1, FloatMaxExp}

\* _calculate_backoff(attempt) with random.random() = jitter / JitterSteps:
\* the delay, in units of 1/JitterSteps second, or the exception
calculate_backoff_call(at, jitter) ==
    IF at >= FloatMaxExp
    THEN Raised(BuiltinError("OverflowError", "int too large to convert to float"))
    ELSE Returned(calculate_backoff(at, jitter))

BackoffInit == backoff_calls = <<>>

CalculateBackoff ==
    /\ Len(backoff_calls) < MaxBackoffCalls
    /\ \E at \in BackoffAttempts, jitter \in 0..(JitterSteps - 1) :
          backoff_calls' = Append(backoff_calls,
                                  [attempt |-> at, jitter |-> jitter,
                                   outcome |-> calculate_backoff_call(at, jitter)])
    /\ UNCHANGED notBoVars

(***************************************************************************)
(* The specifications.                                                     *)
(***************************************************************************)
ErrParked ==
    /\ pae_status = 0
    /\ pae_body = EmptyBody
    /\ pae_raised = NoError
    /\ pae_returned = FALSE

HttpParked ==
    /\ max_retries = 0
    /\ json_error_is_request_exception = FALSE
    /\ script = <<>>
    /\ pc = "idle"
    /\ attempt = 0
    /\ attempts = 0
    /\ sleeps = <<>>
    /\ http_call = NoHttpCall
    /\ sent = <<>>
    /\ last_error = NoError
    /\ result = NoResult

SigParked ==
    /\ sig_header = <<>>
    /\ origin = NoOrigin
    /\ vs_call = NoCall

WhParked ==
    /\ wh_secret = ""
    /\ wh_tolerance = DefaultTolerance
    /\ handlers = NoHandlers
    /\ processed_events = {}
    /\ wh_call = NoCall

SubParked ==
    /\ cache_enabled = FALSE
    /\ cache_ttl = CacheTtl
    /\ cache = NoCache
    /\ sub_call = NoCall

ClockParked == now = Epoch

BackoffParked == backoff_calls = <<>>

ErrorsInit ==
    /\ ErrInit /\ HttpParked /\ ClockParked /\ SigParked /\ WhParked /\ SubParked
    /\ BackoffParked
ErrorsNext == ParseApiError
SpecErrors == ErrorsInit /\ [][ErrorsNext]_vars

TransportInit ==
    /\ HttpInit /\ ErrParked /\ ClockParked /\ SigParked /\ WhParked /\ SubParked
    /\ BackoffParked
TransportNext ==
    \/ Request
    \/ ConsumeRejected
    \/ AttemptOk
    \/ AttemptErrorResponse
    \/ AttemptTimeout
    \/ AttemptConnectionError
    \/ Exhausted
SpecHttp == TransportInit /\ [][TransportNext]_vars

SignatureInit ==
    /\ SigInit /\ ErrParked /\ HttpParked /\ WhParked /\ SubParked
    /\ BackoffParked
SignatureNext ==
    \/ Tick
    \/ GenerateSignature
    \/ ReceiveHeader
    \/ VerifySignature
SpecSig == SignatureInit /\ [][SignatureNext]_vars

WebhookInit ==
    /\ WhInit /\ ErrParked /\ HttpParked /\ SigParked /\ SubParked
    /\ BackoffParked
WebhookNext ==
    \/ Tick
    \/ Verify
    \/ VerifyOrRaise
    \/ ConstructEvent
SpecWebhook == WebhookInit /\ [][WebhookNext]_vars

DispatcherInit ==
    /\ DispatchInit /\ ErrParked /\ HttpParked /\ SigParked /\ SubParked
    /\ BackoffParked
DispatcherNext ==
    \/ On
    \/ Off
    \/ Handle
    \/ Process
    \/ DispatchVerify
    \/ DispatchVerifyOrRaise
    \/ DispatchConstructEvent
    \/ IsProcessed
    \/ ClearProcessed
    \/ Return
SpecDispatch == DispatcherInit /\ [][DispatcherNext]_vars

SubscriptionsInit ==
    /\ SubInit /\ ErrParked /\ HttpParked /\ SigParked /\ WhParked
    /\ BackoffParked
SubscriptionsNext ==
    \/ SubscriptionsVerify
    \/ InvalidateCache
    \/ ClearCache
    \/ SubReturn
    \/ Elapse
SpecCache == SubscriptionsInit /\ [][SubscriptionsNext]_vars

BackoffCallsInit ==
    /\ BackoffInit /\ ErrParked /\ HttpParked /\ ClockParked /\ SigParked
    /\ WhParked /\ SubParked
BackoffCallsNext == CalculateBackoff
SpecBackoff == BackoffCallsInit /\ [][BackoffCallsNext]_vars

(***************************************************************************)
(* Claims about the transport (SpecHttp).                                  *)
(***************************************************************************)
Is429(r)       == r.kind = "response" /\ r.status = 429
Is5xx(r)       == r.kind = "response" /\ 500 <= r.status /\ r.status < 600
Is4xxNot429(r) == r.kind = "response" /\ 400 <= r.status /\ r.status < 500
                  /\ r.status # 429
Is2xx(r)       == r.kind = "response" /\ 200 <= r.status /\ r.status < 300
IsTransient(r) == r.kind \in {"timeout", "connection"}
Called         == pc # "idle"

\* C1: with max_retries = 3 and a server that answers 429, 429, then 200 with a
\* JSON body, request returns that body after exactly 3 attempts and 2 sleeps,
\* the sleep after failed attempt i being at least base_delay * 2^i.
C1_RateLimitedTwiceThenSuccess ==
    (/\ pc = "done"
     /\ max_retries = 3
     /\ Is429(script[1]) /\ Is429(script[2])
     /\ Is2xx(script[3]) /\ script[3].json)
    => /\ result = Returned(script[3].body)
       /\ attempts = 3
       /\ Len(sleeps) = 2
       /\ \A i \in 1..Len(sleeps) :
             sleeps[i].delay >= JitterSteps * BaseDelay * Pow2(i - 1)

\* C2: a 5xx response is retried while attempts remain: request raises the
\* error of a 5xx response only when that response came to attempt
\* max_retries + 1, the last one.
C2_ServerErrorRetried ==
    (/\ pc = "done"
     /\ attempts >= 1
     /\ Is5xx(script[attempts])
     /\ result.kind = "raise")
    => attempts = max_retries + 1

\* C3: a 4xx response other than 429 ends the call on the attempt that received
\* it: request raises the error parse_api_error maps the response to, makes no
\* further attempt and does not sleep after it, whatever retries remain.
C3_ClientErrorNotRetried ==
    Called =>
    \A k \in 1..attempts :
        Is4xxNot429(script[k]) =>
            /\ k = attempts
            /\ pc = "done"
            /\ result = Raised(parse_api_error(script[k].status, ErrorBody(script[k])))
            /\ IsOneSubError(result.exc)
            /\ result.exc.status_code = script[k].status
            /\ Len(sleeps) = k - 1

\* a 404 that came to the second or a later attempt, with retries remaining
C3_Witness ==
    /\ pc = "done"
    /\ attempts >= 2
    /\ attempts <= max_retries
    /\ script[attempts].status = 404
    /\ result.kind = "raise"
    /\ result.exc.cls = "NotFoundError"

FirstOk(k) ==
    /\ Is2xx(script[k])
    /\ \A j \in 1..(k - 1) : ~Is2xx(script[j])

PaeCalled == pae_raised # NoError \/ pae_returned

\* the value of a present key, the default of an absent one
Taken(field, default) == IF Cardinality(field) = 1
                         THEN CHOOSE v \in field : field = {v} ELSE default

Verified == vs_call.op = "verify_signature"

\* the hex HMAC of "{t}.{payload}" under the secret, for the t field of the
\* header and the payload and secret verify_signature was called with
ExpectedDigest ==
    create_hmac_signature(SignedPayload(origin.timestamp, vs_call.payload),
                          vs_call.secret)

\* the header holds the sender's t and v1 fields, and t is an integer within
\* the tolerance of the time of the call
InTolerance ==
    /\ origin.layout \in FullLayouts
    /\ ParseInt(origin.timestamp).ok
    /\ Abs(vs_call.at - ParseInt(origin.timestamp).value) <= vs_call.tolerance_seconds

\* C7: verify_signature accepts the header generate_signature made for the same
\* payload and secret, at the signing time and at any time within
\* tolerance_seconds of it.
C7_SignThenVerify ==
    (/\ Verified
     /\ origin.kind = "generated"
     /\ vs_call.payload = origin.payload
     /\ vs_call.secret = origin.secret
     /\ Abs(vs_call.at - origin.at) <= vs_call.tolerance_seconds)
    => vs_call.result = Returned(TRUE)

\* a header verified 300 seconds after it was generated, with tolerance 300
C7_Witness ==
    /\ Verified
    /\ origin.kind = "generated"
    /\ vs_call.payload = origin.payload
    /\ vs_call.secret = origin.secret
    /\ vs_call.at = origin.at + DefaultTolerance
    /\ vs_call.tolerance_seconds = DefaultTolerance
    /\ vs_call.result = Returned(TRUE)

\* C8: for a header whose v1 is the correct HMAC for its timestamp t,
\* verify_signature at time now returns true exactly when
\* |now - t| <= tolerance_seconds, for t in the past and in the future.
C8_ToleranceWindow ==
    (/\ Verified
     /\ origin.layout \in FullLayouts
     /\ ParseInt(origin.timestamp).ok
     /\ origin.sig = ExpectedDigest)
    => (vs_call.result = Returned(TRUE) <=> InTolerance)
       /\ vs_call.result \in {Returned(TRUE), Returned(FALSE)}

\* a received header stamped exactly tolerance_seconds = 300 in the future is
\* accepted
C8_Witness ==
    /\ Verified
    /\ origin.kind = "received"
    /\ origin.sig = ExpectedDigest
    /\ ParseInt(origin.timestamp).ok
    /\ ParseInt(origin.timestamp).value = vs_call.at + DefaultTolerance
    /\ vs_call.tolerance_seconds = DefaultTolerance
    /\ vs_call.result = Returned(TRUE)

\* C9: verify_signature returns false when the t field is in tolerance and v1
\* is not exactly the hex HMAC of "{t}.{payload}" under the secret (a flipped
\* hex character, another payload, timestamp or secret), and when t or v1 is
\* missing or t is not an integer.
C9_WrongSignatureRejected ==
    Verified =>
        /\ (InTolerance /\ origin.sig # ExpectedDigest)
              => vs_call.result = Returned(FALSE)
        /\ (origin.layout \notin FullLayouts \/ ~ParseInt(origin.timestamp).ok)
              => vs_call.result = Returned(FALSE)

(***************************************************************************)
(* Claims about WebhooksClient (SpecWebhook).                              *)
(***************************************************************************)
JsonDocuments == {"[1]", "{\"id\":\"evt_1\",\"type\":\"x\"}", "{\"type\":\"x\"}"}

\* The request carries a valid signature for the client: its sender signed
\* this very payload with the client's secret at a time within the client's
\* tolerance of the call (and, as WebhooksClient.verify has it, the payload is
\* not empty)
ValidSignature ==
    /\ wh_call.sender.kind = "signed"
    /\ wh_call.sender.payload = wh_call.payload
    /\ wh_call.sender.secret = wh_secret
    /\ Abs(wh_call.at - wh_call.sender.at) <= wh_tolerance
    /\ wh_call.payload # ""

\* C10: construct_event verifies before it parses.  With an invalid signature it
\* raises WebhookVerificationError "Invalid webhook signature" and never parses
\* the payload, JSON or not; with a valid signature and a payload that is not
\* JSON it raises WebhookVerificationError "Invalid webhook payload"; with a
\* valid signature and a JSON payload it returns the parsed event.
C10_VerifyBeforeParse ==
    wh_call.op = "construct_event" =>
        /\ ~ValidSignature =>
              /\ wh_call.outcome =
                    Raised(WebhookVerificationError(Msg("Invalid webhook signature")))
              /\ ~wh_call.parsed
        /\ (ValidSignature /\ wh_call.payload \notin JsonDocuments) =>
              wh_call.outcome =
                    Raised(WebhookVerificationError(Msg("Invalid webhook payload")))
        /\ (ValidSignature /\ wh_call.payload \in JsonDocuments) =>
              /\ wh_call.outcome.kind = "return"
              /\ wh_call.outcome.value.doc = wh_call.payload

(***************************************************************************)
(* Claims about the dispatcher (SpecDispatch).                             *)
(***************************************************************************)
\* The event of the call at hand: the argument of handle, or what json.loads
\* makes of the payload given to process
CallEvent ==
    IF wh_call.op = "handle" THEN wh_call.args.event
    ELSE JsonLoads(wh_call.args.payload).value
CallEventId   == Get(CallEvent.id, "")
CallEventType == Get(CallEvent.type, "")

HandleCalled  == wh_call.op = "handle"
SeenBefore    == CallEventId \in wh_call.processed_before
Registered    == CallEventType \in DOMAIN wh_call.handlers_before
TheHandler    == wh_call.handlers_before[CallEventType]

\* C11: handle of an event whose id is already in the processed set returns
\* true, invokes no handler and leaves the processed set as it was; handle of
\* an unseen event whose type has a handler (one that returns) invokes that
\* handler exactly once, returns true and leaves the id in the processed set,
\* so that the second of two deliveries is the first case.
C11_DuplicateIsNoOp ==
    HandleCalled =>
        /\ SeenBefore =>
              /\ wh_call.outcome = Returned(TRUE)
              /\ wh_call.invoked = <<>>
              /\ processed_events = wh_call.processed_before
        /\ (~SeenBefore /\ Registered /\ ~HandlerRaises(TheHandler)) =>
              /\ wh_call.outcome = Returned(TRUE)
              /\ Len(wh_call.invoked) = 1
              /\ wh_call.invoked[1].handler = TheHandler
              /\ wh_call.invoked[1].event = CallEvent
              /\ CallEventId \in processed_events

\* a redelivery, with a handler registered for the type of the event
C11_Witness ==
    /\ HandleCalled /\ SeenBefore /\ Registered
    /\ wh_call.outcome = Returned(TRUE)
    /\ wh_call.invoked = <<>>

\* C12: handle of an unseen event whose type has no handler returns false,
\* invokes nothing and leaves the processed set as it was, the id not in it;
\* and handle of an unseen event whose type has a handler invokes that handler
\* and, when the handler returns, returns true: a redelivery after a later
\* on(type, h) is such a call.
C12_UnhandledStaysUnseen ==
    (HandleCalled /\ ~SeenBefore) =>
        /\ ~Registered =>
              /\ wh_call.outcome = Returned(FALSE)
              /\ wh_call.invoked = <<>>
              /\ processed_events = wh_call.processed_before
              /\ ~is_processed(CallEventId)
        /\ Registered =>
              /\ wh_call.invoked =
                    <<Invocation(TheHandler, CallEvent, processed_events)>>
              /\ ~HandlerRaises(TheHandler) => wh_call.outcome = Returned(TRUE)

\* an unseen event, no handler for its type, and the dispatcher has handlers
\* for other types and other ids processed
C12_Witness ==
    /\ HandleCalled /\ ~SeenBefore /\ ~Registered
    /\ wh_call.outcome = Returned(FALSE)
    /\ wh_call.handlers_before # NoHandlers
    /\ wh_call.processed_before # {}
    /\ ~is_processed(CallEventId)

\* C13 (as stated): an id handle has dispatched stays in the processed set,
\* whatever is called next, until clear_processed is called.
C13_ProcessedUntilCleared ==
    [][wh_call'.op # "clear_processed" =>
          processed_events \subseteq processed_events']_vars

\* C13 (amended): an id in the processed set stays in it until clear_processed
\* is called or until it is the one member removed to make room, when handle
\* dispatches a new id while the set is at its capacity; and while it is in
\* the set every handle of an event with that id returns true without
\* invoking a handler.
C13_ProcessedUntilClearedOrEvicted ==
    /\ [][\/ processed_events \subseteq processed_events'
          \/ wh_call'.op = "clear_processed"
          \/ /\ wh_call'.op \in {"handle", "process"}
             /\ Len(wh_call'.invoked) = 1
             /\ Cardinality(processed_events) >= MaxProcessed
             /\ Cardinality(processed_events \ processed_events') = 1
             /\ processed_events' \ processed_events \in
                   {{Get(wh_call'.invoked[1].event.id, "")}}]_vars
    /\ [](wh_call.op \in {"handle", "process"} =>
            \A i \in 1..Len(wh_call.invoked) :
               Get(wh_call.invoked[i].event.id, "") \notin wh_call.processed_before)
    /\ []((HandleCalled /\ SeenBefore) => wh_call.outcome = Returned(TRUE))

\* another id is dispatched and the ids processed before are all kept
C13_Witness ==
    /\ HandleCalled /\ ~SeenBefore
    /\ Len(wh_call.invoked) = 1
    /\ wh_call.processed_before # {}
    /\ wh_call.processed_before \subseteq processed_events
    /\ processed_events # wh_call.processed_before

\* C14: the registry holds one handler per event type.  on(t, h) makes h the
\* handler of t, replacing the one t had, and leaves the other types alone;
\* off(t) leaves t without a handler and the other types alone, raises nothing
\* and changes nothing when t had no handler; handle invokes at most one
\* handler, the one registered for the type of the event and with that event,
\* and for an unseen event whose type has no handler it invokes none and
\* returns false.
C14_OneHandlerPerType ==
    /\ wh_call.op = "on" =>
          /\ DOMAIN handlers = DOMAIN wh_call.handlers_before
                                  \cup {wh_call.args.event_type}
          /\ handlers[wh_call.args.event_type] = wh_call.args.handler
          /\ \A t \in DOMAIN wh_call.handlers_before \ {wh_call.args.event_type} :
                handlers[t] = wh_call.handlers_before[t]
    /\ wh_call.op = "off" =>
          /\ wh_call.outcome.kind = "return"
          /\ DOMAIN handlers = DOMAIN wh_call.handlers_before
                                  \ {wh_call.args.event_type}
          /\ \A t \in DOMAIN handlers : handlers[t] = wh_call.handlers_before[t]
          /\ wh_call.args.event_type \notin DOMAIN wh_call.handlers_before =>
                handlers = wh_call.handlers_before
    /\ HandleCalled =>
          /\ handlers = wh_call.handlers_before
          /\ Len(wh_call.invoked) <= 1
          /\ \A i \in 1..Len(wh_call.invoked) :
                /\ Registered
                /\ wh_call.invoked[i].handler = handlers[CallEventType]
                /\ wh_call.invoked[i].event = CallEvent
          /\ (~SeenBefore /\ ~Registered) =>
                wh_call.outcome = Returned(FALSE) /\ wh_call.invoked = <<>>

\* on replaces the handler a type has, while another type has a handler too
C14_Witness ==
    /\ wh_call.op = "on"
    /\ wh_call.args.event_type \in DOMAIN wh_call.handlers_before
    /\ wh_call.handlers_before[wh_call.args.event_type] # wh_call.args.handler
    /\ handlers[wh_call.args.event_type] = wh_call.args.handler
    /\ DOMAIN handlers # {wh_call.args.event_type}

\* The request given to process carries a valid signature: its sender signed
\* this payload with the client's secret within the tolerance, and the
\* payload is not empty
ProcessCalled == wh_call.op = "process"
ProcessValid ==
    /\ wh_call.args.sender.kind = "signed"
    /\ wh_call.args.sender.payload = wh_call.args.payload
    /\ wh_call.args.sender.secret = wh_secret
    /\ Abs(now - wh_call.args.sender.at) <= wh_tolerance
    /\ wh_call.args.payload # ""
ProcessEvent ==
    /\ JsonLoads(wh_call.args.payload).ok
    /\ JsonLoads(wh_call.args.payload).value.isobj

\* C15: for a payload with a valid signature that parses as a JSON event,
\* process returns the parsed event when the id of the event was already
\* processed (no handler is invoked), when the type of the event has no handler
\* (none is invoked) and when its handler was invoked and returned.
C15_ProcessReturnsEvent ==
    (ProcessCalled /\ ProcessValid /\ ProcessEvent) =>
        /\ SeenBefore =>
              /\ wh_call.outcome = Returned(CallEvent)
              /\ wh_call.args.handled = Returned(TRUE)
              /\ wh_call.invoked = <<>>
        /\ (~SeenBefore /\ ~Registered) =>
              /\ wh_call.outcome = Returned(CallEvent)
              /\ wh_call.args.handled = Returned(FALSE)
              /\ wh_call.invoked = <<>>
        /\ (~SeenBefore /\ Registered /\ ~HandlerRaises(TheHandler)) =>
              /\ wh_call.outcome = Returned(CallEvent)
              /\ wh_call.args.handled = Returned(TRUE)
              /\ Len(wh_call.invoked) = 1

\* process returns the event although no handler is registered for its type
C15_Witness ==
    /\ ProcessCalled /\ ProcessValid /\ ProcessEvent
    /\ ~SeenBefore /\ ~Registered
    /\ wh_call.args.handled = Returned(FALSE)
    /\ wh_call.outcome = Returned(JsonLoads(wh_call.args.payload).value)

\* C16: verify returns a boolean; process returns the parsed event, or
\* propagates the failure of the handler, or raises WebhookVerificationError,
\* for every payload and every signature header.
C16_TypedFailuresOnly ==
    /\ wh_call.op = "verify" =>
          /\ wh_call.outcome.kind = "return"
          /\ wh_call.outcome.value \in BOOLEAN
    /\ ProcessCalled =>
          \/ /\ wh_call.outcome.kind = "return"
             /\ JsonLoads(wh_call.args.payload).ok
             /\ wh_call.outcome.value = JsonLoads(wh_call.args.payload).value
          \/ /\ wh_call.outcome.kind = "raise"
             /\ wh_call.invoked # <<>>
             /\ wh_call.outcome.exc = HandlerError
          \/ /\ wh_call.outcome.kind = "raise"
             /\ wh_call.outcome.exc.cls = "WebhookVerificationError"

\* C20: when handle invokes a handler the id of the event is in the processed
\* set already as the handler is entered; a failure of the handler is the
\* outcome of handle, and the id is processed after it.
C20_MarkedBeforeInvoked ==
    (HandleCalled /\ wh_call.invoked # <<>>) =>
        /\ ~SeenBefore
        /\ CallEventId \in wh_call.invoked[1].processed
        /\ HandlerRaises(wh_call.invoked[1].handler) =>
              /\ wh_call.outcome = Raised(HandlerError)
              /\ is_processed(CallEventId)
        /\ ~HandlerRaises(wh_call.invoked[1].handler) =>
              wh_call.outcome = Returned(TRUE)

\* the handler failed and the event is processed
C20_Witness ==
    /\ HandleCalled
    /\ Len(wh_call.invoked) = 1
    /\ wh_call.outcome = Raised(HandlerError)
    /\ CallEventId \notin wh_call.processed_before
    /\ is_processed(CallEventId)

(***************************************************************************)
(* More claims about the errors (SpecErrors).                              *)
(***************************************************************************)
\* C17: an InsufficientCreditsError raised by parse_api_error has shortfall =
\* required - current_balance, with the two taken from the body and 0 for a
\* missing one (current_balance 5 and required 20 give 15); when required is
\* not below current_balance the shortfall is not negative.
C17_Shortfall ==
    pae_raised.cls = "InsufficientCreditsError" =>
        /\ pae_raised.shortfall = pae_raised.required - pae_raised.current_balance
        /\ pae_raised.shortfall = Taken(pae_body.required, 0)
                                     - Taken(pae_body.current_balance, 0)
        /\ (pae_body.current_balance = {5} /\ pae_body.required = {20}) =>
              pae_raised.shortfall = 15
        /\ pae_raised.required >= pae_raised.current_balance =>
              pae_raised.shortfall >= 0

\* a 400 INSUFFICIENT_CREDITS body without current_balance: the shortfall is
\* all of required
C17_Witness ==
    /\ pae_raised.cls = "InsufficientCreditsError"
    /\ pae_body.current_balance = {}
    /\ pae_body.required = {20}
    /\ pae_raised.shortfall = 20

(***************************************************************************)
(* Claims about SubscriptionsApi (SpecCache).                              *)
(***************************************************************************)
\* C18: after invalidate_cache(onesub_user_id) the cache holds no entry for
\* that user, so that the next verify of the user cannot be answered from the
\* cache and goes to the transport.
C18_InvalidateRemovesEntry ==
    (sub_call.op = "invalidate_cache" /\ sub_call.args.onesub_user_id \in UserIds) =>
        /\ sub_call.outcome.kind = "return"
        /\ Key(sub_call.args.onesub_user_id) \notin DOMAIN cache
        /\ get_cached(Key(sub_call.args.onesub_user_id)).hit = None

\* a call that dispatched the event to a handler: handle, or the handle of
\* process
Dispatched ==
    /\ wh_call.op \in {"handle", "process"}
    /\ wh_call.invoked # <<>>
AtCapacityBefore == Cardinality(wh_call.processed_before) = MaxProcessed

LeastDelay(at) == Min(JitterSteps * BaseDelay * IntPow2(at), JitterSteps * MaxDelay)

\* the delay of a call is within the bounds of the claim
DelayWithinBounds(call) ==
    /\ call.outcome.kind = "return"
    /\ call.outcome.value = Min(JitterSteps * BaseDelay * IntPow2(call.attempt)
                                  + call.jitter,
                                JitterSteps * MaxDelay)
    /\ call.outcome.value <= JitterSteps * MaxDelay
    /\ call.outcome.value >= LeastDelay(call.attempt)

\* a later attempt sleeps no less than an earlier one, up to the jitter (which
\* is less than one second)
NonDecreasing(first, second) ==
    (first.attempt <= second.attempt
        /\ first.outcome.kind = "return" /\ second.outcome.kind = "return")
    => second.outcome.value > first.outcome.value - JitterSteps

\* C22: for every attempt i >= 0 the backoff delay is min(2^i + jitter, 30)
\* seconds with jitter in [0, 1): at most 30 seconds, at least min(2^i, 30)
\* seconds, and non-decreasing in i up to the jitter.
C22_BackoffWithinBounds ==
    /\ \A k \in 1..Len(backoff_calls) : DelayWithinBounds(backoff_calls[k])
    /\ \A k \in 1..Len(backoff_calls), l \in 1..Len(backoff_calls) :
          NonDecreasing(backoff_calls[k], backoff_calls[l])

\* (what holds: the same, for the attempts below the end of the floats)
BackoffWithinBoundsBelowOverflow ==
    /\ \A k \in 1..Len(backoff_calls) :
          backoff_calls[k].attempt < FloatMaxExp
             => DelayWithinBounds(backoff_calls[k])
    /\ \A k \in 1..Len(backoff_calls), l \in 1..Len(backoff_calls) :
          NonDecreasing(backoff_calls[k], backoff_calls[l])

\* (reached: a capped delay, after an uncapped one)
BackoffCapReached ==
    /\ Len(backoff_calls) = 2
    /\ backoff_calls[1].outcome = Returned(JitterSteps * BaseDelay * 4 + 1)
    /\ backoff_calls[2].attempt = FloatMaxExp - 1
    /\ backoff_calls[2].outcome = Returned(JitterSteps * MaxDelay)

(***************************************************************************)
(* Claims about the cache of SubscriptionsApi (SpecCache).                 *)
(***************************************************************************)
\* A call of verify that names a user: with no identifier at all verify
\* raises ValidationError before it looks at the cache or the transport
VerifyCalled ==
    /\ sub_call.op = "verify"
    /\ ~(Falsy(sub_call.args.onesub_user_id) /\ Falsy(sub_call.args.tool_user_id)
         /\ Falsy(sub_call.args.email_sha256))
VerifyKey ==
    Key(FirstTruthy(sub_call.args.onesub_user_id, sub_call.args.tool_user_id,
                    sub_call.args.email_sha256))
\* the entry an earlier verify left for the identifier of this call, and its age
CachedBefore == VerifyKey \in DOMAIN sub_call.cache_before
EntryBefore  == sub_call.cache_before[VerifyKey]
EntryAge     == sub_call.at - EntryBefore.data.fetched_at

\* C23: with caching enabled, a verify whose identifier was cached by an
\* earlier successful verify (its response held oneSubUserId) less than
\* cache_ttl seconds ago returns the cached data without a transport request;
\* at or after the expiry time it issues one transport request and the expired
\* entry is gone from the cache (an entry fetched by this call may take its
\* place); with caching disabled every verify issues a transport request and
\* nothing is stored.  An entry expires cache_ttl seconds after the response it
\* holds was stored.
C23_CacheTtl ==
    /\ \A k \in DOMAIN cache :
          /\ ~Falsy(cache[k].data.oneSubUserId)
          /\ cache[k].expiry = cache[k].data.fetched_at + cache_ttl
    /\ (VerifyCalled /\ cache_enabled /\ CachedBefore /\ EntryAge < cache_ttl) =>
          /\ sub_call.outcome = Returned(EntryBefore.data)
          /\ sub_call.requests = <<>>
          /\ cache = sub_call.cache_before
    /\ (VerifyCalled /\ cache_enabled /\ CachedBefore /\ EntryAge >= cache_ttl) =>
          /\ Len(sub_call.requests) = 1
          /\ VerifyKey \in DOMAIN cache =>
                /\ cache[VerifyKey] # EntryBefore
                /\ cache[VerifyKey].data.fetched_at = sub_call.at
          /\ sub_call.outcome.kind = "raise" => VerifyKey \notin DOMAIN cache
    /\ (VerifyCalled /\ ~cache_enabled) =>
          /\ Len(sub_call.requests) = 1
          /\ sub_call.cache_before = NoCache
          /\ cache = NoCache

\* a verify served from the cache one second before the entry expires
C23_Witness ==
    /\ VerifyCalled /\ cache_enabled /\ CachedBefore
    /\ EntryAge = cache_ttl - 1
    /\ sub_call.requests = <<>>
    /\ sub_call.outcome = Returned(EntryBefore.data)

\* (also reached: a verify at the expiry time of its entry goes to the
\* transport, fails there, and the entry is gone)
C23_ExpiredReached ==
    /\ VerifyCalled /\ cache_enabled /\ CachedBefore
    /\ EntryAge = cache_ttl
    /\ Len(sub_call.requests) = 1
    /\ sub_call.outcome.kind = "raise"
    /\ VerifyKey \notin DOMAIN cache

\* (also reached: a verify without cache, answered with a oneSubUserId)
C23_DisabledReached ==
    /\ VerifyCalled /\ ~cache_enabled
    /\ sub_call.outcome.kind = "return"
    /\ ~Falsy(sub_call.outcome.value.oneSubUserId)
    /\ cache = NoCache

\* construct_event or process is called with a payload whose signature does
\* not verify, or with a signed payload that is not JSON
ConstructCalled == wh_call.op \in {"construct_event", "process"}
FailsVerification == ~ProcessValid
FailsParsing == ProcessValid /\ ~JsonLoads(wh_call.args.payload).ok
FrameKept ==
    /\ processed_events = wh_call.processed_before
    /\ handlers = wh_call.handlers_before

\* C24: when construct_event or process fails signature verification or JSON
\* parsing, the call raises, no handler is invoked, and the processed set and
\* the handler registry are as they were before the call; and verify,
\* verify_or_raise, is_processed, on and off never change the processed set.
C24_FailureChangesNothing ==
    /\ (ConstructCalled /\ (FailsVerification \/ FailsParsing)) =>
          /\ wh_call.outcome.kind = "raise"
          /\ wh_call.invoked = <<>>
          /\ FrameKept
    /\ wh_call.op \in {"verify", "verify_or_raise", "is_processed", "on", "off"} =>
          /\ wh_call.invoked = <<>>
          /\ processed_events = wh_call.processed_before

\* process of a signed payload that is not JSON, on a client that has a
\* handler and a processed id
C24_Witness ==
    /\ ProcessCalled /\ FailsParsing
    /\ wh_call.outcome = Raised(WebhookVerificationError(Msg("Invalid webhook payload")))
    /\ wh_call.processed_before # {}
    /\ DOMAIN wh_call.handlers_before # {}
    /\ FrameKept

\* (also reached: construct_event of a payload whose signature does not
\* verify, and verify_or_raise, on such a client)
C24_ConstructReached ==
    /\ wh_call.op = "construct_event" /\ FailsVerification
    /\ wh_call.outcome = Raised(WebhookVerificationError(Msg("Invalid webhook signature")))
    /\ wh_call.processed_before # {}
    /\ FrameKept
C24_VerifyOrRaiseReached ==
    /\ wh_call.op = "verify_or_raise"
    /\ wh_call.outcome.kind = "raise"
    /\ processed_events # {}

\* an event that carries no id field
IdLess(event) == event.isobj /\ event.id = None
\* "" leaves the processed set in this step
EmptyIdDropped == "" \in processed_events /\ "" \notin processed_events'

\* C25 (as stated): an id-less event is handled under the id "": once handle
\* has dispatched one to a handler "" is in the processed set, every id-less
\* event handle is given while "" is there, of any type, returns true without
\* invoking a handler, and "" stays there until clear_processed is called.
C25_IdLessUntilCleared ==
    /\ []((Dispatched /\ IdLess(wh_call.invoked[1].event)) =>
             "" \in processed_events)
    /\ []((HandleCalled /\ IdLess(CallEvent) /\ "" \in wh_call.processed_before) =>
             /\ wh_call.outcome = Returned(TRUE)
             /\ wh_call.invoked = <<>>
             /\ processed_events = wh_call.processed_before)
    /\ [][EmptyIdDropped => wh_call'.op = "clear_processed"]_vars

\* C25 (amended): the same, but "" stays in the processed set until
\* clear_processed is called or until it is the one member removed to make
\* room, when handle dispatches a new id while the set is at its capacity.
C25_IdLessUntilClearedOrEvicted ==
    /\ []((Dispatched /\ IdLess(wh_call.invoked[1].event)) =>
             "" \in processed_events)
    /\ []((HandleCalled /\ IdLess(CallEvent) /\ "" \in wh_call.processed_before) =>
             /\ wh_call.outcome = Returned(TRUE)
             /\ wh_call.invoked = <<>>
             /\ processed_events = wh_call.processed_before)
    /\ [][EmptyIdDropped =>
            \/ wh_call'.op = "clear_processed"
            \/ /\ wh_call'.op \in {"handle", "process"}
               /\ Len(wh_call'.invoked) = 1
               /\ Cardinality(processed_events) >= MaxProcessed
               /\ processed_events \ processed_events' = {""}
               /\ processed_events' \ processed_events \in
                     {{Get(wh_call'.invoked[1].event.id, "")}}]_vars

\* an id-less event of a type that has a handler is given to handle after an
\* id-less event was dispatched and other calls were made: no handler runs
C25_Witness ==
    /\ HandleCalled /\ IdLess(CallEvent) /\ Registered
    /\ "" \in wh_call.processed_before
    /\ Cardinality(wh_call.processed_before) = MaxProcessed
    /\ wh_call.outcome = Returned(TRUE)
    /\ wh_call.invoked = <<>>

\* the id-less event of another call is dispatched again, "" having been
\* removed to make room for another id
C25_DispatchedAgain ==
    /\ Dispatched /\ IdLess(wh_call.invoked[1].event)
    /\ "" \notin wh_call.processed_before
    /\ Cardinality(wh_call.processed_before) = MaxProcessed

(***************************************************************************)
(* Claims about the requests sent (SpecHttp).                              *)
(***************************************************************************)
\* the JSON body of the k-th session.request call
SentBody(k) == Value(sent[k].json)
ConsumeCalled == http_call.op = "consume" /\ pc \in {"running", "done"}

\* C26: every attempt of one request call sends the method, the URL (base_url
\* followed by the path) and the JSON body the call was given, so all attempts
\* send the same; every attempt of one credits.consume call is a POST to
\* /credits/consume whose body carries the idempotency_key, user_id and amount
\* of the call, the retries like the first attempt.
C26_SameRequestEveryAttempt ==
    /\ Len(sent) = attempts
    /\ \A k \in 1..Len(sent) :
          /\ sent[k] = sent[1]
          /\ sent[k].method = http_call.method
          /\ sent[k].url = base_url \o <<http_call.path>>
          /\ sent[k].json = http_call.data
    /\ ConsumeCalled =>
          \A k \in 1..Len(sent) :
             /\ sent[k].method = "POST"
             /\ sent[k].url = <<"https://1sub.io/api/v1", "/credits/consume">>
             /\ sent[k].json # None
             /\ SentBody(k).idempotency_key = http_call.args.idempotency_key
             /\ SentBody(k).user_id = http_call.args.user_id
             /\ SentBody(k).amount = http_call.args.amount
             /\ SentBody(k).idempotency_key = SentBody(1).idempotency_key
             /\ SentBody(k).user_id = SentBody(1).user_id
             /\ SentBody(k).amount = SentBody(1).amount
    /\ pc = "rejected" => sent = <<>>

\* a consume call whose first two attempts failed and were retried and whose
\* third attempt was answered
C26_Witness ==
    /\ ConsumeCalled /\ pc = "done"
    /\ Len(sent) = 3
    /\ script[1].kind = "timeout" /\ script[2].kind = "connection"
    /\ result.kind = "return"
    /\ SentBody(3).idempotency_key = "key-01"
    /\ SentBody(3).amount = 5

\* a GET, which has no body, is retried
C26_GetReached ==
    /\ http_call.op = "get" /\ Len(sent) >= 2
    /\ sent[2].json = None

====
